---- MODULE Spec2Model ----
(***************************************************************************)
(* A model of the Reddalert ingest -> match -> dispatch pipeline:          *)
(*   services/poller.py, services/deduplicator.py, services/matcher.py,    *)
(*   services/match_engine.py, services/alert_dispatcher.py and            *)
(*   worker/pipeline.py.                                                   *)
(*                                                                         *)
(* The persistent store is a set of tables (clients, webhooks, monitored,  *)
(* keywords, content, matches).  The worker's SQLAlchemy session is        *)
(* created with autoflush=False (database.py:57): objects added to the     *)
(* session and attribute changes stay in the session (sess_new,            *)
(* sess_dirty) and are invisible to queries until commit().                *)
(***************************************************************************)
EXTENDS Integers, Sequences, FiniteSets, TLC

\* ------------------------------------------------------------------------
\* Program constants
\* ------------------------------------------------------------------------
BATCH_THRESHOLD == 3
BATCH_WINDOW_SECONDS == 120
MAX_RETRIES == 3
INITIAL_BACKOFF == 1

\* ------------------------------------------------------------------------
\* Bounds of the model
\* ------------------------------------------------------------------------
MaxMatches == 3

\* NULL of a nullable timestamp column, None of an Optional[str]
None == -1
NoUrl == "None"

\* outcome of one client.post(): an HTTP status, or 0 for a raised
\* httpx.HTTPError (transport error)
TransportError == 0
Responses == {200, 204, 500, TransportError}

Clients == {"c1", "c2"}

\* detected_at values of the rows the dispatcher finds: both sides of the
\* batching window
TimeSet == {0, BATCH_WINDOW_SECONDS, BATCH_WINDOW_SECONDS + 1}

VARIABLES
    clients,      \* clients table: client id -> email
    webhooks,     \* webhook_configs table: set of rows
    monitored,    \* monitored_subreddits table: set of rows
    keywords,     \* keywords table: set of rows
    feed,         \* upstream: the listings Reddit may serve for each name
    content,      \* reddit_content table (committed): id -> row
    matches,      \* matches table (committed): id -> row
    tick,         \* number of pipeline_job runs started
    to_poll,      \* poll_all_active: active names not polled yet
    poll_results, \* poll_all_active: results, in polling order
    last_poll,    \* outcome of the latest poll_subreddit call
    to_match,     \* process_batch: content_list
    mi,           \* process_batch: index of the next item
    created,      \* ids of the Match rows created in this run_pipeline call
    last_call,    \* process_batch: what the latest process_content call did
    sess_dirty,   \* session: uncommitted attribute changes of Match objects
    now,          \* the clock read by datetime.now()
    pc,           \* position of the worker
    pending,      \* dispatch_pending: the loaded pending matches (ids)
    batches,      \* dispatch_pending: result of _batch_matches
    bi,           \* dispatch_pending: index of the batch being sent
    attempt,      \* _send_webhook: loop variable
    backoff,      \* _send_webhook: current backoff
    success,      \* dispatch_pending: result of _send_webhook
    send_trace,   \* POSTs and sleeps of the current _send_webhook call
    posted,       \* (client, url, batch index) of every POST of the run
    emails,       \* _send_failure_email calls: sequence of [to, match]
    result,       \* return value of dispatch_pending
    delivered,    \* what _send_webhook returned for each batch of the run
    sweep,        \* cleanup_old_data: cutoff, deleted rows, steps done
    worker,       \* main: the scheduler and the job instances it has run
    probe,        \* a call of a pure function: its arguments and results
    api,          \* API process: a dispatch_pending run on its own session
    bot           \* bot process: the reactivation jobs of its scheduler

dispatchVars == <<pending, batches, bi, attempt, backoff, success,
                  send_trace, posted, emails, result, delivered>>
configVars == <<clients, webhooks, monitored, keywords, feed>>
pollVars == <<to_poll, poll_results, last_poll>>
engineVars == <<to_match, mi, created>>
\* what the dispatcher's loop leaves alone
storeVars == <<configVars, content, matches, tick, pollVars, engineVars>>
vars == <<clients, webhooks, monitored, keywords, feed, content, matches,
          tick, to_poll, poll_results, last_poll, to_match, mi, created,
          sess_dirty, now, pc, pending, batches, bi, attempt, backoff,
          success, send_trace, posted, emails, result, delivered, sweep,
          worker, probe, last_call, api, bot>>

\* ------------------------------------------------------------------------
\* Helpers
\* ------------------------------------------------------------------------
Range(s) == {s[i] : i \in DOMAIN s}

Max(S) == CHOOSE x \in S : \A y \in S : y <= x
Min(S) == CHOOSE x \in S : \A y \in S : x <= y


\* ------------------------------------------------------------------------
\* Text.  A text is a sequence of one-character strings; a token list is a
\* sequence of texts.
\* ------------------------------------------------------------------------
UPPER == <<"A", "B", "C", "D", "E", "F", "G", "H", "I", "J", "K", "L", "M",
           "N", "O", "P", "Q", "R", "S", "T", "U", "V", "W", "X", "Y", "Z">>
LOWER == <<"a", "b", "c", "d", "e", "f", "g", "h", "i", "j", "k", "l", "m",
           "n", "o", "p", "q", "r", "s", "t", "u", "v", "w", "x", "y", "z">>

\* str.lower(), one character
LowerChar(c) ==
    IF \E i \in DOMAIN UPPER : UPPER[i] = c
    THEN LOWER[CHOOSE i \in DOMAIN UPPER : UPPER[i] = c]
    ELSE c

\* str.lower()
Lower(t) == [i \in DOMAIN t |-> LowerChar(t[i])]

IsSpace(c) == c \in {" ", "\n", "\t"}

\* str.split(): the maximal runs of non-whitespace characters
RECURSIVE SplitFrom(_, _, _)
SplitFrom(t, i, cur) ==
    IF i > Len(t)
    THEN (IF cur = <<>> THEN <<>> ELSE <<cur>>)
    ELSE IF IsSpace(t[i])
    THEN (IF cur = <<>> THEN <<>> ELSE <<cur>>) \o SplitFrom(t, i + 1, <<>>)
    ELSE SplitFrom(t, i + 1, Append(cur, t[i]))

Split(t) == SplitFrom(t, 1, <<>>)

\* " ".join(tokens)
RECURSIVE Join(_)
Join(toks) ==
    IF toks = <<>> THEN <<>>
    ELSE IF Len(toks) = 1 THEN toks[1]
    ELSE toks[1] \o <<" ">> \o Join(Tail(toks))

\* a character of _TOKEN_PATTERN, [a-z0-9'-] (normalizer.py 32)
IsTokenChar(c) ==
    c \in Range(LOWER) \cup {"0", "1", "2", "3", "4", "5", "6", "7", "8", "9", "'", "-"}

\* _TOKEN_PATTERN.findall: the maximal runs of token characters
RECURSIVE TokenizeFrom(_, _, _)
TokenizeFrom(t, i, cur) ==
    IF i > Len(t)
    THEN (IF cur = <<>> THEN <<>> ELSE <<cur>>)
    ELSE IF ~IsTokenChar(t[i])
    THEN (IF cur = <<>> THEN <<>> ELSE <<cur>>) \o TokenizeFrom(t, i + 1, <<>>)
    ELSE TokenizeFrom(t, i + 1, Append(cur, t[i]))

\* _tokenize, normalizer.py 103-105
_tokenize(text) == TokenizeFrom(text, 1, <<>>)

\* str.strip() is empty
IsBlank(t) == \A i \in DOMAIN t : IsSpace(t[i])

\* _normalize_whitespace: runs of whitespace become one space, ends stripped
_normalize_whitespace(t) == Join(Split(t))

\* the character at position i, "" outside the text
At(t, i) == IF i \in DOMAIN t THEN t[i] ELSE ""

\* the first position >= i that holds c, 0 if there is none
FirstIdx(t, i, c) ==
    LET S == {j \in i..Len(t) : t[j] = c} IN IF S = {} THEN 0 ELSE Min(S)

NotSpace(c) == ~IsSpace(c)

IsHash(c) == c = "#"

IsRuleChar(c) == c \in {"-", "*", "_"}

\* the character classes of the patterns: \s, \S, # and [-*_]
InClass(c, class) ==
    CASE class = "space" -> IsSpace(c)
      [] class = "nonspace" -> NotSpace(c)
      [] class = "hash" -> IsHash(c)
      [] class = "rule" -> IsRuleChar(c)

\* the length of the longest run of characters of a class that starts at i
RunLen(t, i, class) ==
    LET S == {n \in 0..(Len(t) - i + 1) :
                 \A j \in i..(i + n - 1) : InClass(t[j], class)}
    IN Max(S)

\* '.' of a pattern: no newline between positions a and b
NoNewline(t, a, b) == \A j \in a..b : t[j] # "\n"

\* '^' of a MULTILINE pattern
LineStart(t, i) == i = 1 \/ t[i - 1] = "\n"

\* the text s stands at position i of t
MatchStr(t, i, s) == \A j \in DOMAIN s : At(t, i + j - 1) = s[j]

\* _REDDIT_LINK_PATTERN.sub(r'\1', text), pattern \[([^\]]*)\]\([^)]*\)
RECURSIVE SubLink(_, _)
SubLink(t, i) ==
    IF i > Len(t) THEN <<>>
    ELSE LET j == FirstIdx(t, i + 1, "]")
             k == IF j = 0 THEN 0 ELSE FirstIdx(t, j + 2, ")")
         IN IF t[i] = "[" /\ j # 0 /\ At(t, j + 1) = "(" /\ k # 0
            THEN SubSeq(t, i + 1, j - 1) \o SubLink(t, k + 1)
            ELSE <<t[i]>> \o SubLink(t, i + 1)

\* _BOLD_PATTERN.sub and _STRIKETHROUGH_PATTERN.sub, pattern cc(.+?)cc for
\* the character c: the closing pair is the nearest one that leaves at least
\* one character, none of them a newline
RECURSIVE SubPair(_, _, _)
SubPair(t, i, c) ==
    IF i > Len(t) THEN <<>>
    ELSE LET Close == {j \in (i + 3)..(Len(t) - 1) :
                          /\ t[j] = c /\ t[j + 1] = c
                          /\ NoNewline(t, i + 2, j - 1)}
         IN IF t[i] = c /\ At(t, i + 1) = c /\ Close # {}
            THEN SubSeq(t, i + 2, Min(Close) - 1) \o SubPair(t, Min(Close) + 2, c)
            ELSE <<t[i]>> \o SubPair(t, i + 1, c)

\* a '*' with no '*' before it and none after it
LoneStar(t, i) == At(t, i) = "*" /\ At(t, i - 1) # "*" /\ At(t, i + 1) # "*"

\* _ITALIC_PATTERN.sub, pattern (?<!\*)\*(?!\*)(.+?)(?<!\*)\*(?!\*)
RECURSIVE SubItalic(_, _)
SubItalic(t, i) ==
    IF i > Len(t) THEN <<>>
    ELSE LET Close == {j \in (i + 2)..Len(t) :
                          LoneStar(t, j) /\ NoNewline(t, i + 1, j - 1)}
         IN IF LoneStar(t, i) /\ Close # {}
            THEN SubSeq(t, i + 1, Min(Close) - 1) \o SubItalic(t, Min(Close) + 1)
            ELSE <<t[i]>> \o SubItalic(t, i + 1)

\* the backquote character, which cannot be written in a string here
Backquote == "backquote"

\* _INLINE_CODE_PATTERN.sub, pattern q([^q]+)q for the backquote q
RECURSIVE SubCode(_, _)
SubCode(t, i) ==
    IF i > Len(t) THEN <<>>
    ELSE LET j == FirstIdx(t, i + 1, Backquote)
         IN IF t[i] = Backquote /\ j >= i + 2
            THEN SubSeq(t, i + 1, j - 1) \o SubCode(t, j + 1)
            ELSE <<t[i]>> \o SubCode(t, i + 1)

\* _BLOCKQUOTE_PATTERN.sub('', text), pattern ^>\s? (MULTILINE)
RECURSIVE SubQuote(_, _)
SubQuote(t, i) ==
    IF i > Len(t) THEN <<>>
    ELSE IF LineStart(t, i) /\ t[i] = ">"
         THEN SubQuote(t, IF IsSpace(At(t, i + 1)) THEN i + 2 ELSE i + 1)
         ELSE <<t[i]>> \o SubQuote(t, i + 1)

\* _HEADING_PATTERN.sub('', text), pattern ^#{1,6}\s+ (MULTILINE)
RECURSIVE SubHeading(_, _)
SubHeading(t, i) ==
    IF i > Len(t) THEN <<>>
    ELSE LET n == RunLen(t, i, "hash")
             w == RunLen(t, i + n, "space")
         IN IF LineStart(t, i) /\ n \in 1..6 /\ w >= 1
            THEN SubHeading(t, i + n + w)
            ELSE <<t[i]>> \o SubHeading(t, i + 1)

\* _HORIZONTAL_RULE_PATTERN.sub('', text), pattern ^[-*_]{3,}\s*$
\* (MULTILINE): \s* takes as much whitespace as leaves it at the end of the
\* text or in front of a newline
RECURSIVE SubRule(_, _)
SubRule(t, i) ==
    IF i > Len(t) THEN <<>>
    ELSE LET r == RunLen(t, i, "rule")
             w == RunLen(t, i + r, "space")
             Ends == {m \in 0..w : i + r + m = Len(t) + 1 \/ At(t, i + r + m) = "\n"}
         IN IF LineStart(t, i) /\ r >= 3 /\ Ends # {}
            THEN SubRule(t, i + r + Max(Ends))
            ELSE <<t[i]>> \o SubRule(t, i + 1)

\* _SUPERSCRIPT_PATTERN.sub(r'\1', text), pattern \^(\S+)
RECURSIVE SubSuper(_, _)
SubSuper(t, i) ==
    IF i > Len(t) THEN <<>>
    ELSE LET n == RunLen(t, i + 1, "nonspace")
         IN IF t[i] = "^" /\ n >= 1
            THEN SubSeq(t, i + 1, i + n) \o SubSuper(t, i + n + 1)
            ELSE <<t[i]>> \o SubSuper(t, i + 1)

\* _strip_markdown, lines 75-95
_strip_markdown(text) ==
    LET links == SubLink(text, 1)
        bold == SubPair(links, 1, "*")
        italic == SubItalic(bold, 1)
        strike == SubPair(italic, 1, "~")
        code == SubCode(strike, 1)
        quote == SubQuote(code, 1)
        heading == SubHeading(quote, 1)
        rule == SubRule(heading, 1)
    IN SubSuper(rule, 1)

\* the position after "http://" or "https://" standing at i, 0 if neither
AfterScheme(t, i) ==
    IF MatchStr(t, i, <<"h", "t", "t", "p", "s", ":", "/", "/">>) THEN i + 8
    ELSE IF MatchStr(t, i, <<"h", "t", "t", "p", ":", "/", "/">>) THEN i + 7
    ELSE 0

\* _URL_PATTERN.sub('', text), pattern https?://\S+
RECURSIVE SubUrl(_, _)
SubUrl(t, i) ==
    IF i > Len(t) THEN <<>>
    ELSE LET q == AfterScheme(t, i)
             n == IF q = 0 THEN 0 ELSE RunLen(t, q, "nonspace")
         IN IF q # 0 /\ n >= 1
            THEN SubUrl(t, q + n)
            ELSE <<t[i]>> \o SubUrl(t, i + 1)

\* _strip_urls, lines 70-72
_strip_urls(text) == SubUrl(text, 1)

\* normalize_text(raw).normalized_text, lines 52-58
normalize_text(raw_text) ==
    IF raw_text = <<>> \/ IsBlank(raw_text) THEN <<>>
    ELSE _normalize_whitespace(_strip_urls(_strip_markdown(Lower(raw_text))))

\* compute_content_hash: SHA-256 of the text; equal exactly for equal texts
compute_content_hash(normalized_text) == <<"sha256", normalized_text>>

\* ------------------------------------------------------------------------
\* Matcher
\* ------------------------------------------------------------------------
_STEM_SUFFIXES ==
    << <<"a", "t", "i", "o", "n", "a", "l">>,
       <<"t", "i", "o", "n", "a", "l">>, <<"e", "n", "c", "i">>,
       <<"a", "n", "c", "i">>, <<"i", "z", "e", "r">>,
       <<"a", "t", "i", "o", "n">>, <<"n", "e", "s", "s">>,
       <<"m", "e", "n", "t">>, <<"f", "u", "l">>, <<"l", "e", "s", "s">>,
       <<"i", "v", "e">>, <<"o", "u", "s">>, <<"i", "n", "g">>,
       <<"b", "l", "e">>, <<"a", "l", "l", "y">>, <<"i", "t", "y">>,
       <<"i", "e", "s">>, <<"i", "e", "d">>, <<"e", "r", "s">>,
       <<"e", "s", "t">>, <<"e", "l", "y">>, <<"e", "s", "s">>,
       <<"l", "y">>, <<"e", "r">>, <<"e", "d">>, <<"a", "l">>, <<"e", "s">>,
       <<"e", "n">>, <<"t", "y">>, <<"s", "s">>, <<"s">> >>

EndsWith(w, suf) ==
    /\ Len(w) >= Len(suf)
    /\ SubSeq(w, Len(w) - Len(suf) + 1, Len(w)) = suf

\* lines 60-64: strip the suffix, then drop a doubled final consonant
StripSuffix(word, suf) ==
    LET stem == SubSeq(word, 1, Len(word) - Len(suf))
    IN IF Len(stem) >= 2 /\ stem[Len(stem)] = stem[Len(stem) - 1]
          /\ stem[Len(stem)] \notin {"a", "e", "i", "o", "u"}
       THEN SubSeq(stem, 1, Len(stem) - 1)
       ELSE stem

_simple_stem(word) ==
    IF Len(word) <= 3 THEN word
    ELSE LET hits == {k \in DOMAIN _STEM_SUFFIXES :
                        /\ EndsWith(word, _STEM_SUFFIXES[k])
                        /\ Len(word) - Len(_STEM_SUFFIXES[k]) >= 2}
         IN IF hits = {} THEN word
            ELSE StripSuffix(word, _STEM_SUFFIXES[Min(hits)])

StemAll(toks) == [i \in DOMAIN toks |-> _simple_stem(toks[i])]
LowerAll(toks) == [i \in DOMAIN toks |-> Lower(toks[i])]

\* [i for i, t in enumerate(stemmed_tokens) if t == target]
Positions(stemmed_tokens, target) ==
    SelectSeq([i \in DOMAIN stemmed_tokens |-> i],
              LAMBDA i : stemmed_tokens[i] = target)

\* None of Optional[list[int]]
NoCombo == <<>>

\* the comparison of the window check the other way round
OutsideWindow_inverted(all_positions, proximity_window) ==
    Max(Range(all_positions)) - Min(Range(all_positions)) < proximity_window

\* _find_combination, lines 296-299: span >= proximity_window
OutsideWindow(all_positions, proximity_window) ==
    Max(Range(all_positions)) - Min(Range(all_positions)) >= proximity_window

\* no check of the order
OutOfOrder_ignored(require_order, pos, current_combo) == FALSE

\* _find_combination, lines 302-303
OutOfOrder(require_order, pos, current_combo) ==
    require_order /\ pos <= current_combo[Len(current_combo)]

\* no check of positions used twice
AlreadyUsed_never(pos, current_combo) == FALSE

\* _find_combination, lines 306-307
AlreadyUsed(pos, current_combo) == pos \in Range(current_combo)

RECURSIVE _find_combination(_, _, _, _, _)
RECURSIVE TryPositions(_, _, _, _, _, _)
RECURSIVE TryPositions_noBacktrack(_, _, _, _, _, _)

\* the loop of _find_combination that returns what the first position that
\* passes the checks leads to, without trying the positions after it
TryPositions_noBacktrack(token_positions, proximity_window, require_order, current_combo, token_idx, k) ==
    IF k > Len(token_positions[token_idx]) THEN NoCombo
    ELSE LET pos == token_positions[token_idx][k]
             all_positions == Append(current_combo, pos)
         IN IF \/ OutsideWindow(all_positions, proximity_window)
               \/ OutOfOrder(require_order, pos, current_combo)
               \/ AlreadyUsed(pos, current_combo)
            THEN TryPositions_noBacktrack(token_positions, proximity_window,
                                          require_order, current_combo, token_idx, k + 1)
            ELSE _find_combination(token_positions, proximity_window,
                                   require_order, all_positions, token_idx + 1)

\* the loop of _find_combination over token_positions[token_idx], from its
\* k-th element on
TryPositions(token_positions, proximity_window, require_order, current_combo, token_idx, k) ==
    IF k > Len(token_positions[token_idx]) THEN NoCombo
    ELSE LET pos == token_positions[token_idx][k]
             all_positions == Append(current_combo, pos)
             span == Max(Range(all_positions)) - Min(Range(all_positions))
         IN IF \/ OutsideWindow(all_positions, proximity_window)
               \/ OutOfOrder(require_order, pos, current_combo)
               \/ AlreadyUsed(pos, current_combo)
            THEN TryPositions(token_positions, proximity_window,
                              require_order, current_combo, token_idx, k + 1)
            ELSE LET res == _find_combination(token_positions,
                                proximity_window, require_order,
                                all_positions, token_idx + 1)
                 IN IF res # NoCombo THEN res
                    ELSE TryPositions(token_positions, proximity_window,
                                      require_order, current_combo,
                                      token_idx, k + 1)

_find_combination(token_positions, proximity_window, require_order, current_combo, token_idx) ==
    IF token_idx > Len(token_positions) THEN current_combo
    ELSE TryPositions(token_positions, proximity_window, require_order,
                      current_combo, token_idx, 1)

\* the anchor loop of _find_phrase_matches, lines 267-280
RECURSIVE AnchorLoop(_, _, _, _)
AnchorLoop(token_positions, proximity_window, require_order, a) ==
    IF a > Len(token_positions[1]) THEN <<>>
    ELSE LET combo == _find_combination(token_positions, proximity_window,
                          require_order, <<token_positions[1][a]>>, 2)
         IN (IF combo # NoCombo THEN <<combo>> ELSE <<>>)
            \o AnchorLoop(token_positions, proximity_window, require_order,
                          a + 1)

_find_phrase_matches(stemmed_tokens, phrase_stemmed, proximity_window, require_order) ==
    IF Len(phrase_stemmed) = 1
    THEN LET ps == Positions(stemmed_tokens, phrase_stemmed[1])
         IN [k \in DOMAIN ps |-> <<ps[k]>>]
    ELSE LET token_positions ==
                 [j \in DOMAIN phrase_stemmed |->
                     Positions(stemmed_tokens, phrase_stemmed[j])]
         IN IF \E j \in DOMAIN token_positions : token_positions[j] = <<>>
            THEN <<>>
            ELSE AnchorLoop(token_positions, proximity_window, require_order,
                            1)

\* mutant: the window of the exclusions ends one token early
_has_proximity_exclusion_short(stemmed_tokens, tokens, matched_indices, exclusions, window, use_stemming) ==
    LET exclusion_set ==
            IF use_stemming
            THEN {_simple_stem(Lower(exclusions[e])) : e \in DOMAIN exclusions}
            ELSE {Lower(exclusions[e]) : e \in DOMAIN exclusions}
        check_tokens == IF use_stemming THEN stemmed_tokens ELSE tokens
        match_min == Min(Range(matched_indices))
        match_max == Max(Range(matched_indices))
        window_start == Max({1, match_min - window})
        window_end == Min({Len(check_tokens), match_max + window - 1})
    IN \E i \in window_start..window_end : check_tokens[i] \in exclusion_set

_has_proximity_exclusion(stemmed_tokens, tokens, matched_indices, exclusions, window, use_stemming) ==
    LET exclusion_set ==
            IF use_stemming
            THEN {_simple_stem(Lower(exclusions[e])) : e \in DOMAIN exclusions}
            ELSE {Lower(exclusions[e]) : e \in DOMAIN exclusions}
        check_tokens == IF use_stemming THEN stemmed_tokens ELSE tokens
        match_min == Min(Range(matched_indices))
        match_max == Max(Range(matched_indices))
        window_start == Max({1, match_min - window})
        window_end == Min({Len(check_tokens), match_max + window})
    IN \E i \in window_start..window_end : check_tokens[i] \in exclusion_set

\* the results of one phrase, lines 203-231
RECURSIVE PhraseResults(_, _, _, _, _)
PhraseResults(phrase_matches, phrase_tokens, stemmed_tokens, tokens, keyword) ==
    IF phrase_matches = <<>> THEN <<>>
    ELSE LET matched_token_indices == Head(phrase_matches)
             rest == PhraseResults(Tail(phrase_matches), phrase_tokens,
                                   stemmed_tokens, tokens, keyword)
         IN IF /\ keyword.exclusions # <<>>
               /\ keyword.exclusion_scope = "proximity"
               /\ _has_proximity_exclusion(stemmed_tokens, tokens,
                      matched_token_indices, keyword.exclusions,
                      keyword.proximity_window, keyword.use_stemming)
            THEN rest
            ELSE << [matched_phrase |-> Join(phrase_tokens),
                     indices |-> matched_token_indices] >> \o rest

\* the loop over keyword.phrases, lines 184-231
RECURSIVE PhraseLoop(_, _, _, _)
PhraseLoop(phrases, stemmed_tokens, tokens, keyword) ==
    IF phrases = <<>> THEN <<>>
    ELSE LET phrase_tokens == Head(phrases)
             rest == PhraseLoop(Tail(phrases), stemmed_tokens, tokens, keyword)
         IN IF phrase_tokens = <<>> THEN rest
            ELSE LET phrase_lower == LowerAll(phrase_tokens)
                     phrase_stemmed == IF keyword.use_stemming
                                       THEN StemAll(phrase_lower)
                                       ELSE phrase_lower
                 IN PhraseResults(
                        _find_phrase_matches(stemmed_tokens, phrase_stemmed,
                            keyword.proximity_window, keyword.require_order),
                        phrase_tokens, stemmed_tokens, tokens, keyword)
                    \o rest

\* the exclusion terms compared as they are written
AnywhereExcluded_caseSensitive(keyword, stemmed_tokens) ==
    \E i \in DOMAIN stemmed_tokens, e \in DOMAIN keyword.exclusions :
       stemmed_tokens[i] = keyword.exclusions[e]

\* find_matches, lines 172-180: a content token is one of the exclusion
\* terms, lowercased and, with use_stemming, stemmed
AnywhereExcluded(keyword, stemmed_tokens) ==
    LET exclusion_set ==
            IF keyword.use_stemming
            THEN {_simple_stem(Lower(keyword.exclusions[e])) :
                     e \in DOMAIN keyword.exclusions}
            ELSE {Lower(keyword.exclusions[e]) :
                     e \in DOMAIN keyword.exclusions}
    IN \E i \in DOMAIN stemmed_tokens : stemmed_tokens[i] \in exclusion_set

\* str.find(token, search_start): the first offset (from 0) at or after
\* search_start where token stands in text, -1 when there is none
Find(text, token, search_start) ==
    LET S == {idx \in search_start..(Len(text) - Len(token)) :
                 MatchStr(text, idx + 1, token)}
    IN IF S = {} THEN -1 ELSE Min(S)

\* _build_token_index: the character offset of every token; the fallback
\* search of lines 83-88 finds what find() finds, so a token that is not in
\* the text gets search_start
RECURSIVE _build_token_index(_, _, _)
_build_token_index(tokens, text, search_start) ==
    IF tokens = <<>> THEN <<>>
    ELSE LET found == Find(text, Head(tokens), search_start)
             idx == IF found = -1 THEN search_start ELSE found
         IN <<idx>> \o _build_token_index(Tail(tokens), text, idx + Len(Head(tokens)))

\* find_matches lines 216-219: the span of an occurrence, from the offset of
\* the first matched index to the end of the token at the last matched index
WithSpan(r, token_offsets, tokens) ==
    LET last_idx == r.indices[Len(r.indices)]
    IN [matched_phrase |-> r.matched_phrase,
        indices |-> r.indices,
        span_start |-> token_offsets[r.indices[1]],
        span_end |-> token_offsets[last_idx] + Len(tokens[last_idx])]

\* find_matches(content, keyword): the MatchResults, each with its phrase,
\* its matched token indices and its span
find_matches(normalized_text, tokens, keyword) ==
    IF normalized_text = <<>> \/ tokens = <<>> THEN <<>>
    ELSE LET stemmed_tokens == IF keyword.use_stemming THEN StemAll(tokens)
                               ELSE tokens
         IN IF /\ keyword.exclusions # <<>>
               /\ keyword.exclusion_scope = "anywhere"
               /\ AnywhereExcluded(keyword, stemmed_tokens)
            THEN <<>>
            ELSE LET token_offsets == _build_token_index(tokens, normalized_text, 0)
                     found == PhraseLoop(keyword.phrases, stemmed_tokens, tokens, keyword)
                 IN [i \in DOMAIN found |-> WithSpan(found[i], token_offsets, tokens)]

\* ------------------------------------------------------------------------
\* Tables
\* ------------------------------------------------------------------------
\* the id the next inserted row of a table gets
NextId(tbl) == IF DOMAIN tbl = {} THEN 1 ELSE Max(DOMAIN tbl) + 1

\* INSERT of the rows of a sequence, in order
Insert(tbl, rows) ==
    LET n == NextId(tbl) - 1
    IN [i \in DOMAIN tbl \cup (n + 1 .. n + Len(rows)) |->
          IF i \in DOMAIN tbl THEN tbl[i] ELSE rows[i - n]]

NoRows == <<>>

\* ------------------------------------------------------------------------
\* RedditPoller
\* ------------------------------------------------------------------------

\* is_duplicate(db, content_hash): a query, it sees committed rows only
is_duplicate(content_hash) ==
    \E i \in DOMAIN content : content[i].content_hash = content_hash

\* lines 218-222: the query for an existing reddit_id
reddit_id_exists(reddit_id) ==
    \E i \in DOMAIN content : content[i].reddit_id = reddit_id

\* the loop of _store_content, lines 199-238
RECURSIVE StoreLoop(_, _, _)
StoreLoop(raw_items, new_records, seen_hashes) ==
    IF raw_items = <<>> THEN new_records
    ELSE LET item == Head(raw_items)
             raw_text == IF item.title # <<>>
                         THEN item.title \o <<" ">> \o item.body
                         ELSE item.body
             normalized == normalize_text(raw_text)
             content_hash == compute_content_hash(normalized)
         IN IF content_hash \in seen_hashes
            THEN StoreLoop(Tail(raw_items), new_records, seen_hashes)
            ELSE IF is_duplicate(content_hash)
                    \/ reddit_id_exists(item.reddit_id)
            THEN StoreLoop(Tail(raw_items), new_records,
                           seen_hashes \cup {content_hash})
            ELSE StoreLoop(Tail(raw_items),
                     Append(new_records,
                            [reddit_id |-> item.reddit_id,
                             subreddit |-> item.subreddit,
                             normalized_text |-> normalized,
                             content_hash |-> content_hash,
                             fetched_at |-> now]),
                     seen_hashes \cup {content_hash})

\* the records _store_content adds to the session
_store_content(raw_items) == StoreLoop(raw_items, <<>>, {})

\* the INSERTs of a commit violate a unique constraint of reddit_content
\* (models/content.py: reddit_id unique, content_hash unique)
UniqueViolation(new_records) ==
    \/ \E i, j \in DOMAIN new_records :
          /\ i # j
          /\ \/ new_records[i].reddit_id = new_records[j].reddit_id
             \/ new_records[i].content_hash = new_records[j].content_hash
    \/ \E i \in DOMAIN new_records, k \in DOMAIN content :
          \/ new_records[i].reddit_id = content[k].reddit_id
          \/ new_records[i].content_hash = content[k].content_hash

\* poll_subreddit lines 79-111: the raw items of a listing
RawItems(subreddit_name, listing) ==
    [i \in DOMAIN listing |->
        [reddit_id |-> listing[i].reddit_id, subreddit |-> subreddit_name,
         title |-> listing[i].title, body |-> listing[i].body]]

\* mutant: the status filter of the query is missing
PollAllStart_anyStatus ==
    /\ pc = "poll_start"
    /\ to_poll' = {m.name : m \in monitored}
    /\ poll_results' = <<>>
    /\ pc' = "poll"
    /\ UNCHANGED <<bot, api, last_call, probe, worker, sweep, configVars, content, matches, tick, last_poll, engineVars,
                   sess_dirty, now, dispatchVars>>

\* poll_all_active, lines 121-127: the distinct names with an active monitor
PollAllStart ==
    /\ pc = "poll_start"
    /\ to_poll' = {m.name : m \in {x \in monitored : x.status = "active"}}
    /\ poll_results' = <<>>
    /\ pc' = "poll"
    /\ UNCHANGED <<bot, api, last_call, probe, worker, sweep, configVars, content, matches, tick, last_poll, engineVars,
                   sess_dirty, now, dispatchVars>>

\* A commit() that failed leaves the session with a rolled back transaction
\* that nobody ends: neither _store_content nor the except clause of
\* poll_all_active (lines 132-134) calls rollback(), so until pipeline_job
\* closes the session every further query raises PendingRollbackError.
SessionNeedsRollback ==
    \E i \in DOMAIN poll_results :
       poll_results[i].outcome = "integrity_error"

\* what poll_all_active records for a community, lines 130-134
PollResult(name, items, outcome) ==
    [name |-> name, items |-> items, outcome |-> outcome]

\* what the latest poll_subreddit call did: its outcome, the raw items it
\* built and the order of its steps (lines 79, 94, 96, 111)
LastPoll(name, outcome, raw, steps) ==
    [name |-> name, outcome |-> outcome, raw |-> raw, steps |-> steps]

NoPoll == LastPoll("", "none", <<>>, <<>>)

AllSteps == <<"posts", "sleep", "comments", "store">>

\* mutant: the posts are stored before the comments are fetched
FetchFails_postsStored(name) ==
    \/ /\ poll_results' = Append(poll_results,
                                  PollResult(name, <<>>, "fetch_failed"))
       /\ last_poll' = LastPoll(name, "fetch_failed", <<>>, <<"posts">>)
       /\ UNCHANGED content
    \/ \E listing \in feed[name] :
          LET new_records == _store_content(RawItems(name, listing))
          IN /\ ~UniqueViolation(new_records)
             /\ content' = Insert(content, new_records)
             /\ poll_results' = Append(poll_results,
                                  PollResult(name, <<>>, "fetch_failed"))
             /\ last_poll' = LastPoll(name, "fetch_failed", <<>>,
                                 <<"posts", "store", "sleep", "comments">>)

\* poll_subreddit raises in _fetch_posts (line 79) or, after the delay, in
\* _fetch_comments (line 96): _store_content is not reached
FetchFails(name) ==
    /\ poll_results' = Append(poll_results,
                              PollResult(name, <<>>, "fetch_failed"))
    /\ \E steps \in {<<"posts">>, <<"posts", "sleep", "comments">>} :
          last_poll' = LastPoll(name, "fetch_failed", <<>>, steps)
    /\ UNCHANGED content

\* one iteration of the loop of poll_all_active, lines 128-134:
\* poll_subreddit(name) and its except clause
PollSubreddit ==
    /\ pc = "poll"
    /\ \E name \in to_poll :
         /\ to_poll' = to_poll \ {name}
         /\ \/ FetchFails(name)
            \/ \* both fetches succeed, _store_content runs
               \E listing \in feed[name] :
                  LET raw_items == RawItems(name, listing)
                      new_records == _store_content(raw_items)
                      n == NextId(content) - 1
                  IN IF raw_items # <<>> /\ SessionNeedsRollback
                     THEN \* the query of is_duplicate raises
                          /\ poll_results' = Append(poll_results,
                                 PollResult(name, <<>>, "pending_rollback"))
                          /\ last_poll' = LastPoll(name, "pending_rollback",
                                                   raw_items, AllSteps)
                          /\ UNCHANGED content
                     ELSE IF new_records # <<>> /\ UniqueViolation(new_records)
                     THEN \* commit() raises IntegrityError
                          /\ poll_results' = Append(poll_results,
                                 PollResult(name, <<>>, "integrity_error"))
                          /\ last_poll' = LastPoll(name, "integrity_error",
                                                   raw_items, AllSteps)
                          /\ UNCHANGED content
                     ELSE /\ content' = Insert(content, new_records)
                          /\ poll_results' = Append(poll_results,
                                 PollResult(name,
                                     [k \in DOMAIN new_records |-> n + k],
                                     "ok"))
                          /\ last_poll' = LastPoll(name, "ok", raw_items,
                                                   AllSteps)
    /\ UNCHANGED <<bot, api, last_call, probe, worker, sweep, configVars, matches, tick, engineVars, sess_dirty, now, pc,
                   dispatchVars>>

\* mutant: poll_all_active returns after the first community
PollAllReturn_early ==
    /\ pc = "poll"
    /\ poll_results # <<>>
    /\ pc' = "polled"
    /\ UNCHANGED <<bot, api, last_call, probe, worker, sweep, configVars, content, matches, tick, pollVars, engineVars,
                   sess_dirty, now, dispatchVars>>

\* poll_all_active, line 136: the results are returned, the locals of the
\* last poll_subreddit call are gone
PollAllReturn ==
    /\ pc = "poll"
    /\ to_poll = {}
    /\ last_poll' = NoPoll
    /\ pc' = "polled"
    /\ UNCHANGED <<bot, api, last_call, probe, worker, sweep, configVars, content, matches, tick, to_poll, poll_results,
                   engineVars, sess_dirty, now, dispatchVars>>

\* ------------------------------------------------------------------------
\* MatchEngine
\* ------------------------------------------------------------------------
ClientSeq == <<"c1", "c2">>

\* the rows of a set in the order of an integer key
RECURSIVE SortById(_)
SortById(S) ==
    IF S = {} THEN <<>>
    ELSE LET k == CHOOSE x \in S : \A y \in S : x.id <= y.id
         IN <<k>> \o SortById(S \ {k})

\* mutant: the status of the MonitoredSubreddit row is not looked at
_get_relevant_keywords_anyStatus(subreddit) ==
    LET kws(c) == IF \E m \in monitored : /\ m.name = subreddit
                                          /\ m.client_id = c
                  THEN SortById({k \in keywords : k.client_id = c
                                                  /\ k.is_active})
                  ELSE <<>>
        F[i \in 0..Len(ClientSeq)] ==
            IF i = 0 THEN <<>> ELSE F[i - 1] \o kws(ClientSeq[i])
    IN F[Len(ClientSeq)]

\* _get_relevant_keywords: the (client, keyword) pairs, client by client
\* (the rows of a query are taken in id order)
_get_relevant_keywords(subreddit) ==
    LET kws(c) == IF \E m \in monitored : /\ m.name = subreddit
                                          /\ m.status = "active"
                                          /\ m.client_id = c
                  THEN SortById({k \in keywords : k.client_id = c
                                                  /\ k.is_active})
                  ELSE <<>>
        F[i \in 0..Len(ClientSeq)] ==
            IF i = 0 THEN <<>> ELSE F[i - 1] \o kws(ClientSeq[i])
    IN F[Len(ClientSeq)]

\* _keyword_to_config; Keyword has no exclusion_scope column, the dataclass
\* default applies
_keyword_to_config(keyword) ==
    [phrases |-> [i \in DOMAIN keyword.phrases |-> Split(keyword.phrases[i])],
     exclusions |-> keyword.exclusions,
     proximity_window |-> keyword.proximity_window,
     require_order |-> keyword.require_order,
     use_stemming |-> keyword.use_stemming,
     exclusion_scope |-> "anywhere"]

\* mutant: only the first result of a keyword is kept
RECURSIVE KwResults_firstOnly(_, _)
KwResults_firstOnly(relevant, item) ==
    IF relevant = <<>> THEN <<>>
    ELSE LET keyword == Head(relevant)
             results == find_matches(item.normalized_text,
                                     Split(item.normalized_text),
                                     _keyword_to_config(keyword))
         IN (IF results = <<>> THEN <<>>
             ELSE << [keyword |-> keyword, r |-> results[1]] >>)
            \o KwResults_firstOnly(Tail(relevant), item)

\* lines 51-59: the (keyword, result) pairs of all relevant keywords
RECURSIVE KwResults(_, _)
KwResults(relevant, item) ==
    IF relevant = <<>> THEN <<>>
    ELSE LET keyword == Head(relevant)
             results == find_matches(item.normalized_text,
                                     Split(item.normalized_text),
                                     _keyword_to_config(keyword))
         IN [i \in DOMAIN results |-> [keyword |-> keyword, r |-> results[i]]]
            \o KwResults(Tail(relevant), item)

\* mutant: the new row is stamped as if it had been sent
_create_match_record_stamped(keyword, content_id, match_result, also_matched) ==
    [client_id |-> keyword.client_id,
     keyword_id |-> keyword.id,
     content_id |-> content_id,
     matched_phrase |-> match_result.matched_phrase,
     also_matched |-> also_matched,
     detected_at |-> now,
     alert_status |-> "pending",
     alert_sent_at |-> now]

\* _create_match_record
_create_match_record(keyword, content_id, match_result, also_matched) ==
    [client_id |-> keyword.client_id,
     keyword_id |-> keyword.id,
     content_id |-> content_id,
     matched_phrase |-> match_result.matched_phrase,
     also_matched |-> also_matched,
     detected_at |-> now,
     alert_status |-> "pending",
     alert_sent_at |-> None]

\* list(a set): the elements once each, in an order the code does not fix
RECURSIVE SetToSeq(_)
SetToSeq(S) ==
    IF S = {} THEN <<>>
    ELSE LET x == CHOOSE y \in S : TRUE
         IN <<x>> \o SetToSeq(S \ {x})

\* mutant: the phrases of all tenants are collected into one list
AllPhrases_anyTenant(kw_results, c) ==
    SetToSeq({kw_results[i].r.matched_phrase : i \in DOMAIN kw_results})

\* line 66: all_phrases of the group of client c (client_matches[client_key])
AllPhrases(kw_results, c) ==
    SetToSeq({kw_results[i].r.matched_phrase :
                i \in {j \in DOMAIN kw_results :
                         kw_results[j].keyword.client_id = c}})

\* line 69
AlsoMatched(all_phrases, matched_phrase) ==
    SelectSeq(all_phrases, LAMBDA p : p # matched_phrase)

\* process_content lines 37-82: the Match rows added to the session
process_content(content_id) ==
    LET item == content[content_id]
        kw_results == KwResults(_get_relevant_keywords(item.subreddit), item)
    IN [i \in DOMAIN kw_results |->
          _create_match_record(kw_results[i].keyword, content_id,
              kw_results[i].r,
              AlsoMatched(AllPhrases(kw_results,
                                     kw_results[i].keyword.client_id),
                          kw_results[i].r.matched_phrase))]

\* process_content has not been called
NoCall == [content_id |-> 0, created |-> 0, commits |-> 0]

\* mutant: the session is committed after every item
Commits_always(rows) == 1

\* process_content lines 84-85: the number of commit() calls
Commits(rows) == IF rows # <<>> THEN 1 ELSE 0

\* one iteration of process_batch: process_content and its commit
ProcessContent ==
    /\ pc = "match"
    /\ mi <= Len(to_match)
    /\ ~SessionNeedsRollback
    /\ LET rows == process_content(to_match[mi])
           n == NextId(matches) - 1
       IN /\ matches' = IF Commits(rows) > 0 THEN Insert(matches, rows) ELSE matches
          /\ created' = created \o [k \in DOMAIN rows |-> n + k]
          /\ last_call' = [content_id |-> to_match[mi], created |-> Len(rows),
                           commits |-> Commits(rows)]
    /\ mi' = mi + 1
    /\ UNCHANGED <<bot, api, probe, worker, sweep, configVars, content, tick, pollVars, to_match, sess_dirty,
                   now, pc, dispatchVars>>

\* process_batch returns
ProcessBatchReturn ==
    /\ pc = "match"
    /\ mi > Len(to_match)
    /\ pc' = "dispatch"
    /\ last_call' = NoCall
    /\ UNCHANGED <<bot, api, probe, worker, sweep, configVars, content, matches, tick, pollVars, engineVars,
                   sess_dirty, now, dispatchVars>>

\* ------------------------------------------------------------------------
\* Session view of a Match: the committed row overlaid with the session's
\* uncommitted attribute changes (identity map)
\* ------------------------------------------------------------------------
MatchObj(id) ==
    IF id \in DOMAIN sess_dirty
    THEN [matches[id] EXCEPT !.alert_status = sess_dirty[id].alert_status,
                             !.alert_sent_at = sess_dirty[id].alert_sent_at]
    ELSE matches[id]

SetAttrs(dirty, id, st, at) ==
    [i \in DOMAIN dirty \cup {id} |->
        IF i = id THEN [alert_status |-> st, alert_sent_at |-> at]
        ELSE dirty[i]]

\* Session.commit(): flush the dirty attributes into the table; the UPDATE
\* of a row writes the attributes that were set, _handle_failure sets the
\* status only
Commit(tbl, dirty) ==
    [i \in DOMAIN tbl |->
        IF i \in DOMAIN dirty
        THEN [tbl[i] EXCEPT !.alert_status = dirty[i].alert_status,
                            !.alert_sent_at =
                               IF dirty[i].alert_status = "failed"
                               THEN tbl[i].alert_sent_at
                               ELSE dirty[i].alert_sent_at]
        ELSE tbl[i]]

NoDirty == [i \in {} |-> [alert_status |-> "pending", alert_sent_at |-> None]]

\* ------------------------------------------------------------------------
\* AlertDispatcher
\* ------------------------------------------------------------------------

\* mutant: the query orders by detected_at descending
RECURSIVE OrderByDetectedAt_desc(_)
OrderByDetectedAt_desc(ids) ==
    IF ids = {} THEN <<>>
    ELSE LET first == CHOOSE a \in ids : \A b \in ids :
                         \/ matches[a].detected_at > matches[b].detected_at
                         \/ /\ matches[a].detected_at = matches[b].detected_at
                            /\ a <= b
         IN <<first>> \o OrderByDetectedAt_desc(ids \ {first})

\* _get_pending_matches: rows with alert_status = pending ordered by
\* detected_at.  detected_at is the microsecond clock read when the row was
\* created, so rows that share a value of the model's coarse clock are
\* ordered by creation (id).
RECURSIVE OrderByDetectedAt(_)
OrderByDetectedAt(ids) ==
    IF ids = {} THEN <<>>
    ELSE LET first == CHOOSE a \in ids : \A b \in ids :
                         \/ matches[a].detected_at < matches[b].detected_at
                         \/ /\ matches[a].detected_at = matches[b].detected_at
                            /\ a <= b
         IN <<first>> \o OrderByDetectedAt(ids \ {first})

\* mutant: the failed matches are loaded again
_get_pending_matches_retryFailed ==
    OrderByDetectedAt({i \in DOMAIN matches :
                         matches[i].alert_status \in {"pending", "failed"}})

_get_pending_matches ==
    OrderByDetectedAt({i \in DOMAIN matches :
                         matches[i].alert_status = "pending"})

\* mutant: the primary query forgets the is_active filter
_get_webhook_url_anyPrimary(client_id) ==
    LET prim == {w \in webhooks : w.client_id = client_id /\ w.is_primary}
        act == {w \in webhooks : w.client_id = client_id /\ w.is_active}
    IN IF prim # {} THEN {w.url : w \in prim}
       ELSE IF act # {} THEN {w.url : w \in act}
       ELSE {NoUrl}

\* _get_webhook_url: the values .first() may return
_get_webhook_url(client_id) ==
    LET prim == {w \in webhooks : w.client_id = client_id /\ w.is_active
                                  /\ w.is_primary}
        act == {w \in webhooks : w.client_id = client_id /\ w.is_active}
    IN IF prim # {} THEN {w.url : w \in prim}
       ELSE IF act # {} THEN {w.url : w \in act}
       ELSE {NoUrl}

\* keys of by_client in insertion order
RECURSIVE ClientOrder(_, _)
ClientOrder(ms, seen) ==
    IF ms = <<>> THEN <<>>
    ELSE LET c == matches[Head(ms)].client_id
         IN IF c \in seen THEN ClientOrder(Tail(ms), seen)
            ELSE <<c>> \o ClientOrder(Tail(ms), seen \cup {c})

by_client(ms, c) == SelectSeq(ms, LAMBDA id : matches[id].client_id = c)

\* mutant: the window test is strict
ClientBatches_strictWindow(client_id, client_matches, webhook_url) ==
    IF webhook_url = NoUrl THEN <<>>
    ELSE
      LET timestamps == {matches[client_matches[i]].detected_at :
                            i \in DOMAIN client_matches}
      IN IF Len(client_matches) >= BATCH_THRESHOLD
            /\ Max(timestamps) - Min(timestamps) < BATCH_WINDOW_SECONDS
         THEN << [client_id |-> client_id, webhook_url |-> webhook_url,
                  matches |-> client_matches, is_batch |-> TRUE] >>
         ELSE [i \in DOMAIN client_matches |->
                 [client_id |-> client_id, webhook_url |-> webhook_url,
                  matches |-> <<client_matches[i]>>, is_batch |-> FALSE]]

\* the batches of one client (body of the loop at lines 106-135)
ClientBatches(client_id, client_matches, webhook_url) ==
    IF webhook_url = NoUrl THEN <<>>
    ELSE
      LET timestamps == {matches[client_matches[i]].detected_at :
                            i \in DOMAIN client_matches}
      IN IF Len(client_matches) >= BATCH_THRESHOLD
            /\ Max(timestamps) - Min(timestamps) <= BATCH_WINDOW_SECONDS
         THEN << [client_id |-> client_id, webhook_url |-> webhook_url,
                  matches |-> client_matches, is_batch |-> TRUE] >>
         ELSE [i \in DOMAIN client_matches |->
                 [client_id |-> client_id, webhook_url |-> webhook_url,
                  matches |-> <<client_matches[i]>>, is_batch |-> FALSE]]

RECURSIVE BatchLoop(_, _, _)
BatchLoop(order, ms, urls) ==
    IF order = <<>> THEN <<>>
    ELSE ClientBatches(Head(order), by_client(ms, Head(order)),
                       urls[Head(order)])
         \o BatchLoop(Tail(order), ms, urls)

\* _batch_matches, given the url _get_webhook_url returned for each client
_batch_matches(ms, urls) == BatchLoop(ClientOrder(ms, {}), ms, urls)

\* dispatch_pending, lines 49-56: load, early return, batch
DispatchLoad ==
    /\ pc = "dispatch"
    /\ ~SessionNeedsRollback
    /\ LET ms == _get_pending_matches IN
         /\ pending' = ms
         /\ IF ms = <<>>
            THEN /\ result' = [sent |-> 0, failed |-> 0, total |-> 0]
                 /\ pc' = "returned"
                 /\ batches' = <<>>
            ELSE /\ \E urls \in [Range(ClientOrder(ms, {})) ->
                                   {w.url : w \in webhooks} \cup {NoUrl}] :
                       /\ \A c \in DOMAIN urls : urls[c] \in _get_webhook_url(c)
                       /\ batches' = _batch_matches(ms, urls)
                 /\ result' = [sent |-> 0, failed |-> 0, total |-> Len(ms)]
                 /\ pc' = "loop"
    /\ bi' = 1
    /\ posted' = {}
    /\ delivered' = <<>>
    /\ UNCHANGED <<bot, api, last_call, probe, worker, sweep, storeVars, sess_dirty, now, attempt, backoff, success,
                   send_trace, emails>>

\* dispatch_pending, lines 58-64: next batch, enter _send_webhook
DispatchNext ==
    /\ pc = "loop"
    /\ bi <= Len(batches)
    /\ attempt' = 1
    /\ backoff' = INITIAL_BACKOFF
    /\ pc' = "post"
    /\ UNCHANGED <<bot, api, last_call, probe, worker, sweep, storeVars, sess_dirty, now, pending, batches, bi, success,
                   send_trace, posted, emails, result, delivered>>

\* what the receiver answered, as recorded in send_trace: 1 for HTTP 200 or
\* 204, 0 for any other status or a transport error
Answered(r) == IF r \in {200, 204} THEN 1 ELSE 0

\* mutant: only 200 counts as success
IsSuccessStatus_only200(r) == r = 200

\* _send_webhook, line 236: resp.status_code in (200, 204)
IsSuccessStatus(r) == r \in {200, 204}

\* _send_webhook, lines 232-246: one POST attempt
SendPost ==
    /\ pc = "post"
    /\ \E r \in Responses :
         /\ send_trace' = Append(send_trace,
                                 [ev |-> "post", v |-> Answered(r)])
         /\ IF IsSuccessStatus(r)
            THEN /\ success' = TRUE
                 /\ pc' = "mark"
                 /\ attempt' = attempt
            ELSE IF attempt < MAX_RETRIES
            THEN /\ pc' = "sleep"
                 /\ UNCHANGED <<success, attempt>>
            ELSE /\ success' = FALSE
                 /\ pc' = "mark"
                 /\ attempt' = attempt
    /\ posted' = posted \cup {[client_id |-> batches[bi].client_id,
                               url |-> batches[bi].webhook_url,
                               batch |-> bi]}
    /\ UNCHANGED <<bot, api, last_call, probe, worker, sweep, storeVars, sess_dirty, now, pending, batches, bi, backoff,
                   emails, result, delivered>>

\* mutant: the backoff is not doubled
SendSleep_noDoubling ==
    /\ pc = "sleep"
    /\ send_trace' = Append(send_trace, [ev |-> "sleep", v |-> backoff])
    /\ backoff' = backoff
    /\ attempt' = attempt + 1
    /\ pc' = "post"
    /\ UNCHANGED <<bot, api, last_call, probe, worker, sweep, storeVars, sess_dirty, now, pending, batches, bi, success,
                   posted, emails, result, delivered>>

\* _send_webhook, lines 248-250: back off before the next attempt
SendSleep ==
    /\ pc = "sleep"
    /\ send_trace' = Append(send_trace, [ev |-> "sleep", v |-> backoff])
    /\ backoff' = backoff * 2
    /\ attempt' = attempt + 1
    /\ pc' = "post"
    /\ UNCHANGED <<bot, api, last_call, probe, worker, sweep, storeVars, sess_dirty, now, pending, batches, bi, success,
                   posted, emails, result, delivered>>

\* mutant: the fallback email is sent without looking at client.email
RECURSIVE FailAll_noEmailCheck(_, _)
FailAll_noEmailCheck(ms, acc) ==
    IF ms = <<>> THEN acc
    ELSE LET id == Head(ms)
             dirty == SetAttrs(acc.dirty, id, "failed",
                               IF id \in DOMAIN acc.dirty
                               THEN acc.dirty[id].alert_sent_at
                               ELSE matches[id].alert_sent_at)
             mail == Append(acc.emails,
                            [to |-> clients[matches[id].client_id],
                             match |-> id])
         IN FailAll_noEmailCheck(Tail(ms), [dirty |-> dirty, emails |-> mail])

\* _handle_failure: status failed, fallback email if the client has one
RECURSIVE FailAll(_, _)
FailAll(ms, acc) ==
    IF ms = <<>> THEN acc
    ELSE LET id == Head(ms)
             dirty == SetAttrs(acc.dirty, id, "failed",
                               IF id \in DOMAIN acc.dirty
                               THEN acc.dirty[id].alert_sent_at
                               ELSE matches[id].alert_sent_at)
             mail == IF clients[matches[id].client_id] # ""
                     THEN Append(acc.emails,
                                 [to |-> clients[matches[id].client_id],
                                  match |-> id])
                     ELSE acc.emails
         IN FailAll(Tail(ms), [dirty |-> dirty, emails |-> mail])

\* mutant: the status is set but alert_sent_at is not
RECURSIVE SentAll_noTimestamp(_, _, _)
SentAll_noTimestamp(ms, dirty, t) ==
    IF ms = <<>> THEN dirty
    ELSE SentAll_noTimestamp(Tail(ms),
                             SetAttrs(dirty, Head(ms), "sent", None), t)

\* lines 69-70: every match of a delivered batch becomes sent at `now`
RECURSIVE SentAll(_, _, _)
SentAll(ms, dirty, t) ==
    IF ms = <<>> THEN dirty
    ELSE SentAll(Tail(ms), SetAttrs(dirty, Head(ms), "sent", t), t)

\* mutant: a failed delivery ends the loop over the batches
DispatchMark_stopOnFailure ==
    /\ pc = "mark"
    /\ LET b == batches[bi]
       IN IF success
          THEN /\ sess_dirty' = SentAll(b.matches, sess_dirty, now)
               /\ result' = [result EXCEPT !.sent = @ + Len(b.matches)]
               /\ bi' = bi + 1
               /\ UNCHANGED emails
          ELSE LET r == FailAll(b.matches,
                                [dirty |-> sess_dirty, emails |-> emails])
               IN /\ sess_dirty' = r.dirty
                  /\ emails' = r.emails
                  /\ result' = [result EXCEPT !.failed = @ + Len(b.matches)]
                  /\ bi' = Len(batches) + 1
    /\ delivered' = Append(delivered, success)
    /\ pc' = "loop"
    /\ attempt' = 1
    /\ backoff' = INITIAL_BACKOFF
    /\ send_trace' = <<>>
    /\ success' = FALSE
    /\ UNCHANGED <<bot, api, last_call, probe, worker, sweep, storeVars, now, pending, batches, posted>>

\* dispatch_pending, lines 66-74: update every match of the batch
DispatchMark ==
    /\ pc = "mark"
    /\ LET b == batches[bi]
       IN IF success
          THEN /\ sess_dirty' = SentAll(b.matches, sess_dirty, now)
               /\ result' = [result EXCEPT !.sent = @ + Len(b.matches)]
               /\ UNCHANGED emails
          ELSE LET r == FailAll(b.matches,
                                [dirty |-> sess_dirty, emails |-> emails])
               IN /\ sess_dirty' = r.dirty
                  /\ emails' = r.emails
                  /\ result' = [result EXCEPT !.failed = @ + Len(b.matches)]
    /\ delivered' = Append(delivered, success)
    /\ bi' = bi + 1
    /\ pc' = "loop"
    \* the locals of the finished _send_webhook call are gone
    /\ attempt' = 1
    /\ backoff' = INITIAL_BACKOFF
    /\ send_trace' = <<>>
    /\ success' = FALSE
    /\ UNCHANGED <<bot, api, last_call, probe, worker, sweep, storeVars, now, pending, batches, posted>>

\* dispatch_pending, lines 76-77: commit and return
DispatchCommit ==
    /\ pc = "loop"
    /\ bi > Len(batches)
    /\ matches' = Commit(matches, sess_dirty)
    /\ sess_dirty' = NoDirty
    /\ pc' = "returned"
    /\ UNCHANGED <<bot, api, last_call, probe, worker, sweep, configVars, content, tick, pollVars, engineVars, now,
                   pending, batches, bi, attempt, backoff, success,
                   send_trace, posted, emails, result, delivered>>

dispatch_pending ==
    \/ DispatchLoad
    \/ DispatchNext
    \/ SendPost
    \/ SendSleep
    \/ DispatchMark
    \/ DispatchCommit

\* ------------------------------------------------------------------------
\* Specification of one dispatch_pending() run over the rows the Match
\* Engine leaves behind
\* ------------------------------------------------------------------------
WebhookRows ==
    { [client_id |-> "c1", url |-> "u1", is_primary |-> TRUE,  is_active |-> TRUE],
      [client_id |-> "c1", url |-> "u2", is_primary |-> FALSE, is_active |-> TRUE],
      [client_id |-> "c2", url |-> "u3", is_primary |-> FALSE, is_active |-> TRUE],
      [client_id |-> "c2", url |-> "u4", is_primary |-> TRUE,  is_active |-> FALSE] }

\* no call is observed
NoProbe == [called |-> FALSE]

\* the API process is not dispatching
\* the scheduler of app/main.py holds no reactivation job; deleted is the
\* record of the rules soft-deleted through DELETE /api/keywords/{id}
NoBot == [jobs |-> {}, deleted |-> {}]

NoApi ==
    [pc |-> "idle", pending |-> <<>>, batches |-> <<>>, bi |-> 1,
     dirty |-> NoDirty, delivered |-> <<>>]

\* the worker process has not been started
NoWorker ==
    [phase |-> "off", jobs |-> <<>>, fires |-> 0, skipped |-> 0, escaped |-> 0]

\* no retention job has run
NoSweep ==
    [cutoff |-> None, matches_deleted |-> {}, content_deleted |-> {},
     cascaded |-> {}, steps |-> <<>>]

PendingRow(c, t) ==
    [client_id |-> c, keyword_id |-> 1, content_id |-> 1,
     matched_phrase |-> <<"b", "e", "t">>, also_matched |-> <<>>,
     detected_at |-> t, alert_status |-> "pending", alert_sent_at |-> None]

InitDispatchLocals ==
    /\ pending = <<>>
    /\ batches = <<>>
    /\ bi = 1
    /\ attempt = 1
    /\ backoff = INITIAL_BACKOFF
    /\ success = FALSE
    /\ send_trace = <<>>
    /\ posted = {}
    /\ emails = <<>>
    /\ result = [sent |-> 0, failed |-> 0, total |-> 0]
    /\ delivered = <<>>
    /\ sweep = NoSweep
    /\ worker = NoWorker
    /\ probe = NoProbe
    /\ last_call = NoCall
    /\ api = NoApi
    /\ bot = NoBot

InitIdle ==
    /\ tick = 0
    /\ to_poll = {}
    /\ poll_results = <<>>
    /\ last_poll = NoPoll
    /\ to_match = <<>>
    /\ mi = 1
    /\ created = <<>>
    /\ sess_dirty = NoDirty

InitDispatch ==
    /\ clients = [c \in Clients |-> IF c = "c1" THEN "c1@example.com" ELSE ""]
    /\ webhooks \in SUBSET WebhookRows
    /\ monitored = {}
    /\ keywords = {}
    /\ feed = <<>>
    /\ content = << [reddit_id |-> "x1", subreddit |-> "s1",
                     normalized_text |-> <<"b", "e", "t">>,
                     content_hash |-> compute_content_hash(<<"b", "e", "t">>),
                     fetched_at |-> 0] >>
    /\ InitIdle
    /\ \E n \in 0..MaxMatches :
         matches \in {m \in [1..n -> {PendingRow(c, t) : c \in Clients, t \in TimeSet}] :
                        \A i, j \in 1..n : i < j => m[i].detected_at <= m[j].detected_at}
    /\ now = BATCH_WINDOW_SECONDS + 2
    /\ pc = "dispatch"
    /\ InitDispatchLocals

SpecDispatch == InitDispatch /\ [][dispatch_pending]_vars

\* ------------------------------------------------------------------------
\* api/poll.py, app/main.py: a dispatch_pending run of the API process
\* (poll_now, _run_poll_cycle) on its own session, while the worker's
\* dispatch_pending runs; the polls of the handler bring no new content
\* ------------------------------------------------------------------------
\* poll_now line 56, _run_poll_cycle line 120; dispatch_pending lines 49-56:
\* the query sees the committed rows
PollNowLoad ==
    /\ api.pc = "idle"
    /\ LET ms == _get_pending_matches IN
         IF ms = <<>>
         THEN api' = [api EXCEPT !.pc = "returned"]
         ELSE \E urls \in [Range(ClientOrder(ms, {})) ->
                             {w.url : w \in webhooks} \cup {NoUrl}] :
                 /\ \A c \in DOMAIN urls : urls[c] \in _get_webhook_url(c)
                 /\ api' = [api EXCEPT !.pc = "loop", !.pending = ms,
                                       !.batches = _batch_matches(ms, urls)]
    /\ UNCHANGED <<bot, last_call, probe, worker, sweep, storeVars, sess_dirty, now, pc, dispatchVars>>

\* dispatch_pending, lines 58-74: one batch; _send_webhook returns True after
\* a 200/204 within MAX_RETRIES attempts and False otherwise
PollNowSend ==
    /\ api.pc = "loop"
    /\ api.bi <= Len(api.batches)
    /\ \E ok \in BOOLEAN :
         LET b == api.batches[api.bi]
             r == IF ok
                  THEN [dirty |-> SentAll(b.matches, api.dirty, now), emails |-> emails]
                  ELSE FailAll(b.matches, [dirty |-> api.dirty, emails |-> emails])
         IN /\ api' = [api EXCEPT !.dirty = r.dirty, !.bi = @ + 1,
                                  !.delivered = Append(@, ok)]
            /\ emails' = r.emails
    /\ UNCHANGED <<bot, last_call, probe, worker, sweep, storeVars, sess_dirty, now, pc, pending, batches,
                   bi, attempt, backoff, success, send_trace, posted, result, delivered>>

\* dispatch_pending, lines 76-77
PollNowCommit ==
    /\ api.pc = "loop"
    /\ api.bi > Len(api.batches)
    /\ matches' = Commit(matches, api.dirty)
    /\ api' = [api EXCEPT !.pc = "returned", !.dirty = NoDirty]
    /\ UNCHANGED <<bot, last_call, probe, worker, sweep, configVars, content, tick, pollVars, engineVars,
                   sess_dirty, now, pc, dispatchVars>>

poll_now ==
    \/ PollNowLoad
    \/ PollNowSend
    \/ PollNowCommit

InitOverlap ==
    /\ InitDispatch
    /\ webhooks = WebhookRows

NextOverlap ==
    \/ dispatch_pending
    \/ poll_now

SpecOverlap == InitOverlap /\ [][NextOverlap]_vars

\* ------------------------------------------------------------------------
\* worker: pipeline_job and run_pipeline
\* ------------------------------------------------------------------------
MaxTicks == 2

\* worker/main.py:28, in minutes
POLL_INTERVAL_MINUTES == 60

\* pipeline_job is started (at startup, then by the interval trigger) and
\* run_pipeline calls poll_all_active
StartTick ==
    /\ pc = "idle"
    /\ tick < MaxTicks
    /\ tick' = tick + 1
    /\ now' = now + 60 * POLL_INTERVAL_MINUTES
    /\ created' = <<>>
    /\ to_match' = <<>>
    /\ mi' = 1
    /\ pc' = "poll_start"
    /\ UNCHANGED <<bot, api, last_call, probe, worker, sweep, configVars, content, matches, pollVars, sess_dirty,
                   dispatchVars>>

\* all_new_content, lines 47-49
RECURSIVE Flatten(_)
Flatten(results) ==
    IF results = <<>> THEN <<>>
    ELSE Head(results).items \o Flatten(Tail(results))

\* mutant: without new content run_pipeline returns at once
PipelineMatchStage_skipDispatch ==
    /\ pc = "polled"
    /\ LET all_new_content == Flatten(poll_results)
       IN IF all_new_content # <<>>
          THEN /\ to_match' = all_new_content
               /\ mi' = 1
               /\ pc' = "match"
          ELSE /\ UNCHANGED <<to_match, mi>>
               /\ pc' = "returned"
    /\ UNCHANGED <<bot, api, last_call, probe, worker, sweep, configVars, content, matches, tick, pollVars, created,
                   sess_dirty, now, dispatchVars>>

\* run_pipeline, lines 45-61: collect the new content, call the match engine
\* only if there is any
PipelineMatchStage ==
    /\ pc = "polled"
    /\ LET all_new_content == Flatten(poll_results)
       IN IF all_new_content # <<>>
          THEN /\ to_match' = all_new_content
               /\ mi' = 1
               /\ pc' = "match"
          ELSE /\ UNCHANGED <<to_match, mi>>
               /\ pc' = "dispatch"
    /\ UNCHANGED <<bot, api, last_call, probe, worker, sweep, configVars, content, matches, tick, pollVars, created,
                   sess_dirty, now, dispatchVars>>

\* pipeline_job ends (lines 45-46): the session is closed and the locals of
\* run_pipeline and of the services it built go out of scope
EndOfRun ==
    /\ sess_dirty' = NoDirty
    /\ to_poll' = {}
    /\ poll_results' = <<>>
    /\ last_poll' = NoPoll
    /\ to_match' = <<>>
    /\ mi' = 1
    /\ created' = <<>>
    /\ pending' = <<>>
    /\ batches' = <<>>
    /\ bi' = 1
    /\ posted' = {}
    /\ result' = [sent |-> 0, failed |-> 0, total |-> 0]
    /\ delivered' = <<>>
    /\ UNCHANGED <<attempt, backoff, success, send_trace, emails>>

\* run_pipeline returns, pipeline_job closes its session
PipelineReturn ==
    /\ pc = "returned"
    /\ EndOfRun
    /\ pc' = "idle"
    /\ UNCHANGED <<bot, api, last_call, probe, worker, sweep, configVars, content, matches, tick, now>>

\* the first query of process_content (match_engine.py 37) or of
\* dispatch_pending (alert_dispatcher.py 49) raises PendingRollbackError,
\* which nothing in run_pipeline catches
PipelineRaise ==
    /\ pc \in {"match", "dispatch"}
    /\ SessionNeedsRollback
    /\ pc' = "failed"
    /\ UNCHANGED <<bot, api, last_call, probe, worker, sweep, configVars, content, matches, tick, pollVars, engineVars,
                   sess_dirty, now, dispatchVars>>

\* _handle_failure, line 263: the Client query raises (the database is
\* unreachable); nothing in dispatch_pending or run_pipeline catches it
DispatchRaise ==
    /\ pc = "mark"
    /\ ~success
    /\ pc' = "failed"
    /\ UNCHANGED <<bot, api, last_call, probe, worker, sweep, configVars, content, matches, tick, pollVars, engineVars,
                   sess_dirty, now, dispatchVars>>

\* pipeline_job, lines 43-46: the exception is logged and the session closed
\* without a commit
PipelineJobExcept ==
    /\ pc = "failed"
    /\ EndOfRun
    /\ pc' = "idle"
    /\ UNCHANGED <<bot, api, last_call, probe, worker, sweep, configVars, content, matches, tick, now>>

run_pipeline ==
    \/ PollAllStart
    \/ PollSubreddit
    \/ PollAllReturn
    \/ PipelineMatchStage
    \/ ProcessContent
    \/ ProcessBatchReturn
    \/ DispatchLoad
    \/ DispatchNext
    \/ SendPost
    \/ SendSleep
    \/ DispatchMark
    \/ DispatchCommit
    \/ PipelineReturn
    \/ PipelineRaise
    \/ DispatchRaise
    \/ PipelineJobExcept

\* the endpoints a tenant may register
NewWebhooks ==
    { [client_id |-> "c1", url |-> "u1", is_primary |-> TRUE,
       is_active |-> TRUE],
      [client_id |-> "c2", url |-> "u3", is_primary |-> FALSE,
       is_active |-> TRUE] }

\* POST /api/webhooks between two pipeline runs: a tenant adds an endpoint
create_webhook ==
    /\ pc = "idle"
    /\ tick >= 1
    /\ tick < MaxTicks
    /\ \E w \in NewWebhooks \ webhooks : webhooks' = webhooks \cup {w}
    /\ UNCHANGED <<bot, api, last_call, probe, worker, sweep, clients, monitored, keywords, feed, content, matches,
                   tick, pollVars, engineVars, sess_dirty, now, pc,
                   dispatchVars>>

Next == StartTick \/ run_pipeline \/ create_webhook

\* texts
T_bet == <<"b", "e", "t">>
T_Bet == <<"B", "e", "t">>
T_odds == <<"o", "d", "d", "s">>
T_bet_odds == <<"b", "e", "t", " ", " ", "O", "d", "d", "s">>

Listing(id, body) == [reddit_id |-> id, title |-> <<>>, body |-> body]

KeywordRow(id, c, phrases) ==
    [id |-> id, client_id |-> c, phrases |-> phrases, exclusions |-> <<>>,
     proximity_window |-> 15, require_order |-> FALSE,
     use_stemming |-> FALSE, is_active |-> TRUE, silenced_until |-> None]

Init ==
    /\ clients = [c \in Clients |-> IF c = "c1" THEN "c1@example.com" ELSE ""]
    /\ webhooks \in SUBSET NewWebhooks
    /\ monitored = { [client_id |-> "c1", name |-> "s1", status |-> "active"],
                     [client_id |-> "c2", name |-> "s1", status |-> "active"],
                     [client_id |-> "c2", name |-> "s2", status |-> "active"],
                     [client_id |-> "c1", name |-> "s2", status |-> "private"],
                     [client_id |-> "c1", name |-> "s3",
                      status |-> "inaccessible"] }
    /\ keywords = { KeywordRow(1, "c1", <<T_bet>>),
                    KeywordRow(2, "c2", <<T_bet, T_odds>>) }
    /\ feed = [n \in {"s1", "s2", "s3"} |->
                 IF n = "s1"
                 THEN { << Listing("x1", T_Bet) >>,
                        << Listing("x1", T_Bet), Listing("x2", T_odds) >>,
                        << Listing("x1", T_Bet), Listing("x1", T_odds) >> }
                 ELSE IF n = "s2"
                 THEN { << Listing("x3", T_bet_odds) >>, << Listing("x4", T_bet) >>, <<>> }
                 ELSE {}]
    /\ content = NoRows
    /\ matches = NoRows
    /\ InitIdle
    /\ now = 0
    /\ pc = "idle"
    /\ InitDispatchLocals

Spec == Init /\ [][Next]_vars

\* ------------------------------------------------------------------------
\* Specification of repeated poll_all_active() runs against an upstream that
\* may serve any listing of up to MaxListing items
\* ------------------------------------------------------------------------
MaxListing == 2
MaxPolls == 2

T_BET == <<"B", "E", "T">>

\* a comment whose body is nothing but a link
T_url == <<"h", "t", "t", "p", "s", ":", "/", "/", "x">>

RawUniverse == { Listing("x1", T_bet), Listing("x2", T_BET),
                 Listing("x1", T_odds), Listing("x2", T_odds),
                 Listing("x3", T_url) }

Listings == UNION {[1..n -> RawUniverse] : n \in 0..MaxListing}

\* the next poll_all_active() call (the poll stage of a later tick)
PollAgain ==
    /\ pc = "polled"
    /\ tick < MaxPolls
    /\ tick' = tick + 1
    /\ pc' = "poll_start"
    /\ UNCHANGED <<bot, api, last_call, probe, worker, sweep, configVars, content, matches, pollVars, engineVars,
                   sess_dirty, now, dispatchVars>>

InitIngest ==
    /\ clients = [c \in Clients |-> IF c = "c1" THEN "c1@example.com" ELSE ""]
    /\ webhooks = {}
    /\ monitored = { [client_id |-> "c1", name |-> "s1", status |-> "active"],
                     [client_id |-> "c2", name |-> "s1", status |-> "active"],
                     [client_id |-> "c2", name |-> "s2", status |-> "private"] }
    /\ keywords = {}
    /\ feed = [n \in {"s1", "s2"} |-> Listings]
    /\ content = NoRows
    /\ matches = NoRows
    /\ InitIdle
    /\ now = 0
    /\ pc = "poll_start"
    /\ InitDispatchLocals

NextIngest == PollAllStart \/ PollSubreddit \/ PollAllReturn \/ PollAgain

SpecIngest == InitIngest /\ [][NextIngest]_vars

\* ------------------------------------------------------------------------
\* Specification of one process_batch() call over persisted items
\* ------------------------------------------------------------------------
MaxItems == 2

T_bet_bet == <<"b", "e", "t", " ", "b", "e", "t">>
T_bet_on_odds == <<"b", "e", "t", " ", "o", "n", " ", "o", "d", "d", "s">>
T_odds_bet == <<"o", "d", "d", "s", " ", "b", "e", "t">>
T_bet_odds_phrase == <<"b", "e", "t", " ", "o", "d", "d", "s">>

EngineTexts == {T_bet, T_bet_bet, T_bet_on_odds, T_odds_bet, T_odds}

EngineKeywords ==
    { KeywordRow(1, "c1", <<T_bet>>),
      KeywordRow(2, "c1", <<T_odds, T_bet>>),
      KeywordRow(3, "c2", <<T_bet_odds_phrase>>),
      [KeywordRow(4, "c2", <<T_bet>>) EXCEPT !.is_active = FALSE],
      \* silenced by /remove with a duration (bot/commands/remove.py 120-122)
      \* and then set active again by PATCH /api/keywords/{id}
      \* (api/keywords.py 78-92), which leaves silenced_until as it is
      [KeywordRow(5, "c2", <<T_odds>>) EXCEPT !.silenced_until = 1] }

ContentRow(id, subreddit, text) ==
    [reddit_id |-> id, subreddit |-> subreddit, normalized_text |-> text,
     content_hash |-> compute_content_hash(text), fetched_at |-> 0]

InitEngine ==
    /\ clients = [c \in Clients |-> IF c = "c1" THEN "c1@example.com" ELSE ""]
    /\ webhooks = {}
    /\ monitored = { [client_id |-> "c1", name |-> "s1", status |-> "active"],
                     [client_id |-> "c2", name |-> "s1", status |-> "active"],
                     [client_id |-> "c1", name |-> "s2", status |-> "active"],
                     [client_id |-> "c2", name |-> "s2", status |-> "private"] }
    /\ keywords \in SUBSET EngineKeywords
    /\ feed = <<>>
    /\ \E n \in 1..MaxItems :
         /\ content \in {c \in [1..n -> {ContentRow(<<"x", i>>, sub, t) :
                                           i \in 1..n, sub \in {"s1", "s2"},
                                           t \in EngineTexts}] :
                            /\ \A i \in 1..n : c[i].reddit_id = <<"x", i>>
                            /\ \A i, j \in 1..n :
                                  i < j => c[i].normalized_text
                                              # c[j].normalized_text}
         /\ to_match = [i \in 1..n |-> i]
    /\ matches = NoRows
    /\ tick = 1
    /\ to_poll = {}
    /\ poll_results = <<>>
    /\ last_poll = NoPoll
    /\ mi = 1
    /\ created = <<>>
    /\ sess_dirty = NoDirty
    /\ now = 0
    /\ pc = "match"
    /\ InitDispatchLocals

NextEngine == ProcessContent \/ ProcessBatchReturn

SpecEngine == InitEngine /\ [][NextEngine]_vars

\* ------------------------------------------------------------------------
\* worker/retention.py, worker/main.py: the daily retention sweep
\* ------------------------------------------------------------------------
RETENTION_DAYS == 90
SecondsPerDay == 86400

\* number of content rows, and of match rows, in the tables at the start
MaxRows == 2
\* number of days the scheduler runs on after the first sweep
MaxDays == 1

\* cleanup_old_data, line 31
Cutoff(t, retention_days) == t - retention_days * SecondsPerDay

\* line 36, the filter of the first DELETE
OldMatches(cutoff) ==
    {id \in DOMAIN matches : matches[id].detected_at < cutoff}

\* line 42, the filter of the second DELETE
OldContent(cutoff) ==
    {id \in DOMAIN content : content[id].fetched_at < cutoff}

\* the rows of matches.content_id that still point at one of the rows
Referencing(ids) ==
    {m \in DOMAIN matches \ sweep.matches_deleted : matches[m].content_id \in ids}

\* a table without the rows of the given ids
Without(table, ids) == [id \in DOMAIN table \ ids |-> table[id]]

\* the statements of cleanup_old_data in the other order: the content rows
\* first
SweepProgram_contentFirst ==
    <<"delete_content", "delete_matches", "sweep_commit", "swept">>

\* the statements of cleanup_old_data, lines 34-46, in program order, and
\* the return
SweepProgram ==
    <<"delete_matches", "delete_content", "sweep_commit", "swept">>

\* the statement after p
NextStep(p) ==
    SweepProgram[(CHOOSE i \in DOMAIN SweepProgram : SweepProgram[i] = p) + 1]

\* retention_job, lines 51-53, and cleanup_old_data, line 31
RetentionJob ==
    /\ pc = "idle"
    /\ sweep' = [NoSweep EXCEPT !.cutoff = Cutoff(now, RETENTION_DAYS)]
    /\ pc' = SweepProgram[1]
    /\ UNCHANGED <<bot, api, last_call, probe, worker, configVars, content, matches, tick, pollVars, engineVars,
                   sess_dirty, now, pending, batches, bi, attempt, backoff,
                   success, send_trace, posted, emails, result, delivered>>

\* cleanup_old_data, lines 34-38: DELETE FROM matches, inside the transaction
DeleteMatches ==
    /\ pc = "delete_matches"
    /\ sweep' = [sweep EXCEPT !.matches_deleted = OldMatches(sweep.cutoff),
                              !.steps = Append(@, "matches")]
    /\ pc' = NextStep("delete_matches")
    /\ UNCHANGED <<bot, api, last_call, probe, worker, configVars, content, matches, tick, pollVars, engineVars,
                   sess_dirty, now, pending, batches, bi, attempt, backoff,
                   success, send_trace, posted, emails, result, delivered>>

\* cleanup_old_data, lines 40-44: DELETE FROM reddit_content. A match row
\* that was not deleted may still point at one of the rows. With the schema
\* of the migration (001_initial_schema.py 168, ON DELETE CASCADE) the
\* database deletes that match row too; with the schema create_all builds
\* from the models (models/matches.py 23, no ON DELETE; SQLite with
\* foreign_keys=ON, database.py 54) the statement raises IntegrityError.
DeleteContent ==
    /\ pc = "delete_content"
    /\ LET old == OldContent(sweep.cutoff)
       IN \/ /\ sweep' = [sweep EXCEPT !.content_deleted = old,
                                       !.cascaded = Referencing(old),
                                       !.steps = Append(@, "content")]
             /\ pc' = NextStep("delete_content")
          \/ /\ Referencing(old) # {}
             /\ sweep' = sweep
             /\ pc' = "sweep_failed"
    /\ UNCHANGED <<bot, api, last_call, probe, worker, configVars, content, matches, tick, pollVars, engineVars,
                   sess_dirty, now, pending, batches, bi, attempt, backoff,
                   success, send_trace, posted, emails, result, delivered>>

\* cleanup_old_data, line 46
RetentionCommit ==
    /\ pc = "sweep_commit"
    /\ matches' = Without(matches, sweep.matches_deleted \cup sweep.cascaded)
    /\ content' = Without(content, sweep.content_deleted)
    /\ sweep' = [sweep EXCEPT !.steps = Append(@, "commit")]
    /\ pc' = NextStep("sweep_commit")
    /\ UNCHANGED <<bot, api, last_call, probe, worker, configVars, tick, pollVars, engineVars,
                   sess_dirty, now, pending, batches, bi, attempt, backoff,
                   success, send_trace, posted, emails, result, delivered>>

\* cleanup_old_data, lines 48-58, and retention_job, lines 54-58
RetentionReturn ==
    /\ pc = "swept"
    /\ pc' = "idle"
    /\ UNCHANGED <<bot, api, last_call, probe, worker, sweep, configVars, content, matches, tick, pollVars,
                   engineVars, sess_dirty, now, dispatchVars>>

\* retention_job, lines 55-58: the exception is logged and the session
\* closed, which rolls the transaction back
RetentionJobExcept ==
    /\ pc = "sweep_failed"
    /\ pc' = "idle"
    /\ UNCHANGED <<bot, api, last_call, probe, worker, sweep, configVars, content, matches, tick, pollVars,
                   engineVars, sess_dirty, now, dispatchVars>>

cleanup_old_data ==
    \/ DeleteMatches
    \/ DeleteContent
    \/ RetentionCommit

retention_job ==
    \/ RetentionJob
    \/ cleanup_old_data
    \/ RetentionReturn
    \/ RetentionJobExcept

\* the clock at the first sweep: the cutoff of that sweep is FirstCutoff
FirstCutoff == 10
FirstSweep == RETENTION_DAYS * SecondsPerDay + FirstCutoff

\* create_scheduler, lines 78-84: the cron trigger fires once a day
DayPasses ==
    /\ pc = "idle"
    /\ sweep.cutoff # None
    /\ now < FirstSweep + MaxDays * SecondsPerDay
    /\ now' = now + SecondsPerDay
    /\ UNCHANGED <<bot, api, last_call, probe, worker, sweep, configVars, content, matches, tick, pollVars,
                   engineVars, sess_dirty, pc, dispatchVars>>

\* fetched_at of the stored rows: on both sides of the first cutoff
FetchTimes == {0, FirstCutoff - 4, FirstCutoff, FirstCutoff + 2}
\* time between the commit of an item and the commit of its Match rows
MatchDelays == {0, 4}

RetentionTexts == <<T_bet, T_odds, T_bet_odds_phrase, T_BET>>

StoredContent(i, t) ==
    [ContentRow(<<"x", i>>, "s1", RetentionTexts[i]) EXCEPT !.fetched_at = t]

StoredMatch(content_id, t) ==
    [PendingRow("c1", t) EXCEPT !.content_id = content_id,
                                !.alert_status = "sent",
                                !.alert_sent_at = t]

InitRetention ==
    /\ clients = [c \in Clients |-> IF c = "c1" THEN "c1@example.com" ELSE ""]
    /\ webhooks = {}
    /\ monitored = {}
    /\ keywords = {}
    /\ feed = <<>>
    /\ \E n \in 1..MaxRows :
         /\ content \in {c \in [1..n -> {StoredContent(i, t) : i \in 1..n, t \in FetchTimes}] :
                           \A i \in 1..n : c[i].reddit_id = <<"x", i>>}
         /\ \E k \in 0..MaxRows :
              matches \in {m \in [1..k -> {StoredMatch(i, t) : i \in 1..n, t \in 0..(FirstCutoff + 6)}] :
                             \A j \in 1..k :
                                m[j].detected_at - content[m[j].content_id].fetched_at \in MatchDelays}
    /\ InitIdle
    /\ now = FirstSweep
    /\ pc = "idle"
    /\ InitDispatchLocals

NextRetention == retention_job \/ DayPasses

SpecRetention == InitRetention /\ [][NextRetention]_vars

\* ------------------------------------------------------------------------
\* worker/main.py: the worker process, its scheduler and the job wrappers
\* ------------------------------------------------------------------------
\* number of trigger firings after the scheduler has started
MaxFires == 3

\* add_job, lines 69-84, passes no max_instances: the scheduler's default
MAX_INSTANCES == 1

JobNames == {"pipeline", "retention"}

\* everything but the worker's own state
jobVars == <<bot, api, last_call, probe, sweep, configVars, content, matches, tick, pollVars, engineVars, sess_dirty, now, pc, dispatchVars>>

\* pipeline_job, line 39, and retention_job, line 51: the job has opened its
\* session and is inside try
JobInstance(job, thread) ==
    [job |-> job, thread |-> thread, at |-> "try", session |-> "open",
     closes |-> 0, outcome |-> "none"]

\* the instances of a job that are executing
Running(job) ==
    {i \in DOMAIN worker.jobs : worker.jobs[i].job = job /\ worker.jobs[i].at # "done"}

\* the scheduler's check before it submits a job: any number of instances
Submittable_unlimited(job) == TRUE

\* the scheduler's check before it submits a job
Submittable(job) == Cardinality(Running(job)) < MAX_INSTANCES

\* main, lines 97-110: the scheduler is built and pipeline_job() is called
\* in the main thread
MainStartup ==
    /\ worker.phase = "off"
    /\ worker' = [worker EXCEPT !.phase = "startup",
                                !.jobs = <<JobInstance("pipeline", "main")>>]
    /\ UNCHANGED jobVars

\* main, lines 112-120: pipeline_job() has returned; scheduler.start()
MainSchedulerStart ==
    /\ worker.phase = "startup"
    /\ worker.jobs[1].at = "done"
    /\ worker' = [worker EXCEPT !.phase = "scheduling"]
    /\ UNCHANGED jobVars

\* create_scheduler, lines 69-84: a trigger of the job fires; the job is
\* submitted to the pool unless MAX_INSTANCES instances of it are running,
\* in which case this run is skipped
TriggerFire(job) ==
    IF Submittable(job)
       THEN [worker EXCEPT !.fires = @ + 1,
                           !.jobs = Append(@, JobInstance(job, "pool"))]
       ELSE [worker EXCEPT !.fires = @ + 1, !.skipped = @ + 1]

\* lines 69-75: the interval trigger of the pipeline job
IntervalFire ==
    /\ worker.phase = "scheduling"
    /\ worker.fires < MaxFires
    /\ worker' = TriggerFire("pipeline")
    /\ UNCHANGED jobVars

\* lines 77-84: the cron trigger of the retention job
CronFire ==
    /\ worker.phase = "scheduling"
    /\ worker.fires < MaxFires
    /\ worker' = TriggerFire("retention")
    /\ UNCHANGED jobVars

\* lines 40-41 and 52-53: run_pipeline or cleanup_old_data returns
JobReturn ==
    \E i \in DOMAIN worker.jobs :
       /\ worker.jobs[i].at = "try"
       /\ worker' = [worker EXCEPT !.jobs[i].at = "finally", !.jobs[i].outcome = "ok"]
       /\ UNCHANGED jobVars

\* run_pipeline or cleanup_old_data raises
JobRaise ==
    \E i \in DOMAIN worker.jobs :
       /\ worker.jobs[i].at = "try"
       /\ worker' = [worker EXCEPT !.jobs[i].at = "except"]
       /\ UNCHANGED jobVars

\* an except clause that logs and raises again
JobExcept_reraise ==
    \E i \in DOMAIN worker.jobs :
       /\ worker.jobs[i].at = "except"
       /\ worker' = [worker EXCEPT !.jobs[i].at = "finally", !.jobs[i].outcome = "escaping"]
       /\ UNCHANGED jobVars

\* lines 42-43 and 54-55: except Exception logs the failure
JobExcept ==
    \E i \in DOMAIN worker.jobs :
       /\ worker.jobs[i].at = "except"
       /\ worker' = [worker EXCEPT !.jobs[i].at = "finally", !.jobs[i].outcome = "failed"]
       /\ UNCHANGED jobVars

\* lines 44-45 and 56-57: finally closes the session; an exception that is
\* still in flight then leaves the job: in the main thread it ends main, in
\* the pool it reaches the scheduler's executor
JobFinally ==
    \E i \in DOMAIN worker.jobs :
       /\ worker.jobs[i].at = "finally"
       /\ LET escapes == worker.jobs[i].outcome = "escaping"
              closed == [worker EXCEPT !.jobs[i].at = "done",
                                       !.jobs[i].session = "closed",
                                       !.jobs[i].closes = @ + 1]
          IN worker' = IF ~escapes THEN closed
                       ELSE IF worker.jobs[i].thread = "main"
                               THEN [closed EXCEPT !.phase = "crashed"]
                               ELSE [closed EXCEPT !.escaped = @ + 1]
       /\ UNCHANGED jobVars

job_wrapper ==
    \/ JobReturn
    \/ JobRaise
    \/ JobExcept
    \/ JobFinally

InitWorker ==
    /\ clients = [c \in Clients |-> IF c = "c1" THEN "c1@example.com" ELSE ""]
    /\ webhooks = {}
    /\ monitored = {}
    /\ keywords = {}
    /\ feed = <<>>
    /\ content = NoRows
    /\ matches = NoRows
    /\ InitIdle
    /\ now = 0
    /\ pc = "idle"
    /\ InitDispatchLocals

NextWorker ==
    \/ MainStartup
    \/ MainSchedulerStart
    \/ IntervalFire
    \/ CronFire
    \/ job_wrapper

SpecWorker == InitWorker /\ [][NextWorker]_vars

\* ------------------------------------------------------------------------
\* services/matcher.py: find_matches as a function of content and rule
\* ------------------------------------------------------------------------
\* number of tokens of the content
MaxTokens == 3
\* largest proximity window of a rule
MaxWindow == 3

T_bets == <<"b", "e", "t", "s">>
T_scam == <<"s", "c", "a", "m">>
T_Scam == <<"S", "c", "a", "m">>
T_scams == <<"s", "c", "a", "m", "s">>

\* the tokens a content is made of
Vocabulary == {T_bet, T_odds, T_scam}

\* a content where the first position tried for the second phrase token
\* passes the checks and leaves no position for the third
BacktrackContent == <<T_bet, T_odds, T_odds, T_scam, T_bet>>

Contents == UNION {[1..n -> Vocabulary] : n \in 1..MaxTokens} \cup {BacktrackContent}

\* KeywordConfig.phrases: the OR group of a rule
PhraseGroups ==
    { << <<T_bet, T_odds>> >>,
      << <<T_bet, T_bet>> >>,
      << <<T_odds, T_bet, T_bets>> >>,
      << <<T_odds, T_bet, T_scam>> >>,
      << <<T_bet>>, <<T_bets, T_odds>> >> }

\* KeywordConfig, lines 20-29; exclusion_scope is "anywhere" by default
KeywordConfigs ==
    {k \in [phrases : PhraseGroups,
            exclusions : {<<>>, <<T_Scam>>, <<T_scams>>},
            proximity_window : 1..MaxWindow,
            require_order : BOOLEAN,
            use_stemming : BOOLEAN,
            exclusion_scope : {"anywhere", "proximity"}] :
        k.exclusions = <<>> => k.exclusion_scope = "anywhere"}

\* no second call yet
NoVariant == [kind |-> "none"]

\* find_matches(content, keyword) for a content given by its tokens
Call(tokens, keyword) == find_matches(Join(tokens), tokens, keyword)

InitMatcher ==
    /\ clients = [c \in Clients |-> IF c = "c1" THEN "c1@example.com" ELSE ""]
    /\ webhooks = {}
    /\ monitored = {}
    /\ keywords = {}
    /\ feed = <<>>
    /\ content = NoRows
    /\ matches = NoRows
    /\ InitIdle
    /\ now = 0
    /\ pc = "idle"
    /\ pending = <<>>
    /\ batches = <<>>
    /\ bi = 1
    /\ attempt = 1
    /\ backoff = INITIAL_BACKOFF
    /\ success = FALSE
    /\ send_trace = <<>>
    /\ posted = {}
    /\ emails = <<>>
    /\ result = [sent |-> 0, failed |-> 0, total |-> 0]
    /\ delivered = <<>>
    /\ sweep = NoSweep
    /\ worker = NoWorker
    /\ last_call = NoCall
    /\ api = NoApi
    /\ bot = NoBot
    /\ \E tokens \in Contents, keyword \in KeywordConfigs :
          probe = [called |-> FALSE, tokens |-> tokens, keyword |-> keyword,
                   results |-> <<>>, variant |-> NoVariant]

matcherVars == <<bot, api, last_call, worker, sweep, configVars, content, matches, tick, pollVars, engineVars, sess_dirty, now, pc, dispatchVars>>

\* find_matches(content, keyword)
FindMatches ==
    /\ ~probe.called
    /\ probe' = [probe EXCEPT !.called = TRUE,
                              !.results = Call(probe.tokens, probe.keyword)]
    /\ UNCHANGED matcherVars

\* a second call with the changed rule
Variant(kind, keyword) ==
    [kind |-> kind, keyword |-> keyword, results |-> Call(probe.tokens, keyword)]

\* the same content and rule with a wider proximity window
FindMatchesWider ==
    /\ probe.called
    /\ probe.variant = NoVariant
    /\ \E w \in (probe.keyword.proximity_window + 1)..MaxWindow :
          probe' = [probe EXCEPT !.variant =
                       Variant("wider", [probe.keyword EXCEPT !.proximity_window = w])]
    /\ UNCHANGED matcherVars

\* the same content and rule with require_order = false
FindMatchesUnordered ==
    /\ probe.called
    /\ probe.variant = NoVariant
    /\ probe.keyword.require_order
    /\ probe' = [probe EXCEPT !.variant =
                    Variant("unordered", [probe.keyword EXCEPT !.require_order = FALSE])]
    /\ UNCHANGED matcherVars

\* the same content and rule without the exclusions
FindMatchesNoExclusions ==
    /\ probe.called
    /\ probe.variant = NoVariant
    /\ probe.keyword.exclusions # <<>>
    /\ probe' = [probe EXCEPT !.variant =
                    Variant("no_exclusions", [probe.keyword EXCEPT !.exclusions = <<>>])]
    /\ UNCHANGED matcherVars

NextMatcher ==
    \/ FindMatches
    \/ FindMatchesWider
    \/ FindMatchesUnordered
    \/ FindMatchesNoExclusions

SpecMatcher == InitMatcher /\ [][NextMatcher]_vars

\* ------------------------------------------------------------------------
\* services/normalizer.py: normalize_text as a function of the raw text
\* ------------------------------------------------------------------------
\* the longest raw text
MaxRaw == 3

\* the characters a raw text is made of: a letter, a blank, the blockquote
\* mark, the superscript mark and the emphasis mark
RawChars == {"a", " ", ">", "^", "*"}

RECURSIVE TextsOfLen(_)
TextsOfLen(n) ==
    IF n = 0 THEN {<<>>}
    ELSE {Append(t, ch) : t \in TextsOfLen(n - 1), ch \in RawChars}

RawTexts == UNION {TextsOfLen(n) : n \in 0..MaxRaw}

InitNormalize ==
    /\ clients = [c \in Clients |-> IF c = "c1" THEN "c1@example.com" ELSE ""]
    /\ webhooks = {}
    /\ monitored = {}
    /\ keywords = {}
    /\ feed = <<>>
    /\ content = NoRows
    /\ matches = NoRows
    /\ InitIdle
    /\ now = 0
    /\ pc = "idle"
    /\ pending = <<>>
    /\ batches = <<>>
    /\ bi = 1
    /\ attempt = 1
    /\ backoff = INITIAL_BACKOFF
    /\ success = FALSE
    /\ send_trace = <<>>
    /\ posted = {}
    /\ emails = <<>>
    /\ result = [sent |-> 0, failed |-> 0, total |-> 0]
    /\ delivered = <<>>
    /\ sweep = NoSweep
    /\ worker = NoWorker
    /\ last_call = NoCall
    /\ api = NoApi
    /\ bot = NoBot
    /\ \E raw_text \in RawTexts :
          probe = [passes |-> 0, raw_text |-> raw_text, once |-> <<>>, twice |-> <<>>]

\* normalize_text(raw_text)
Normalize ==
    /\ probe.passes = 0
    /\ probe' = [probe EXCEPT !.passes = 1, !.once = normalize_text(probe.raw_text)]
    /\ UNCHANGED matcherVars

\* normalize_text(normalize_text(raw_text).normalized_text)
NormalizeAgain ==
    /\ probe.passes = 1
    /\ probe' = [probe EXCEPT !.passes = 2, !.twice = normalize_text(probe.once)]
    /\ UNCHANGED matcherVars

NextNormalize ==
    \/ Normalize
    \/ NormalizeAgain

SpecNormalize == InitNormalize /\ [][NextNormalize]_vars

\* ------------------------------------------------------------------------
\* Properties of the dispatcher
\* ------------------------------------------------------------------------
InRun == pc \in {"loop", "post", "sleep", "mark", "returned"}

\* the matches that are part of an outgoing message of the run
BatchedIds == UNION {Range(batches[i].matches) : i \in DOMAIN batches}

PendingOf(c) == {id \in Range(pending) : matches[id].client_id = c}

HasActiveEndpoint(c) == \E w \in webhooks : w.client_id = c /\ w.is_active

SentState(m) == m.alert_status = "sent" /\ m.alert_sent_at # None
FailedState(m) == m.alert_status = "failed" /\ m.alert_sent_at = None

\* C1: after dispatch_pending() has returned, every Match that was part of
\* an outgoing message of the run is either (sent, alert_sent_at set) or
\* (failed, alert_sent_at null): exactly one of the two, and never pending.
C1_SentXorFailed ==
    pc = "returned" =>
      \A id \in BatchedIds :
         /\ matches[id].alert_status # "pending"
         /\ SentState(matches[id]) # FailedState(matches[id])

C1_Witness ==
    /\ pc = "returned"
    /\ \E a, b \in BatchedIds :
         SentState(matches[a]) /\ FailedState(matches[b])

\* C2: for each tenant with an active endpoint, one batched message with all
\* of the tenant's pending matches is formed (and POSTed) iff the tenant has
\* at least 3 pending matches whose detected_at span is at most 120 s;
\* otherwise each pending match is its own single-match message.
C2_BatchIff ==
    InRun =>
      \A c \in Clients :
        (HasActiveEndpoint(c) /\ PendingOf(c) # {}) =>
          LET P == PendingOf(c)
              ts == {matches[id].detected_at : id \in P}
              msgs == {i \in DOMAIN batches : batches[i].client_id = c}
              cond == Cardinality(P) >= 3 /\ Max(ts) - Min(ts) <= 120
          IN /\ cond =>
                  \E i \in DOMAIN batches :
                     /\ msgs = {i}
                     /\ batches[i].is_batch
                     /\ Range(batches[i].matches) = P
                     /\ Len(batches[i].matches) = Cardinality(P)
             /\ ~cond =>
                  /\ Cardinality(msgs) = Cardinality(P)
                  /\ \A i \in msgs : ~batches[i].is_batch
                                     /\ Len(batches[i].matches) = 1
                  /\ \A id \in P : \E i \in msgs : batches[i].matches = <<id>>
             /\ pc = "returned" =>
                  \A i \in msgs : \E q \in posted : q.batch = i

C2_Witness ==
    /\ pc = "returned"
    /\ \E i \in DOMAIN batches :
         /\ batches[i].is_batch
         /\ Len(batches[i].matches) >= 3
         /\ \E q \in posted : q.batch = i

\* the POST and sleep events of a finished _send_webhook call
PostsOf(tr) == {i \in DOMAIN tr : tr[i].ev = "post"}
SleepsOf(tr) == {i \in DOMAIN tr : tr[i].ev = "sleep"}
AnsweredOk(tr) == {i \in PostsOf(tr) : tr[i].v = 1}

\* C3: when every POST attempt fails, _send_webhook makes exactly 3 POSTs,
\* sleeps 1 s after the first and 2 s after the second, does not sleep after
\* the last one, and returns failure.
C3_ThreeAttempts ==
    (pc = "mark" /\ AnsweredOk(send_trace) = {}) =>
      /\ send_trace = << [ev |-> "post", v |-> 0], [ev |-> "sleep", v |-> 1],
                         [ev |-> "post", v |-> 0], [ev |-> "sleep", v |-> 2],
                         [ev |-> "post", v |-> 0] >>
      /\ success = FALSE

C3_Witness ==
    /\ pc = "mark"
    /\ AnsweredOk(send_trace) = {}
    /\ Len(send_trace) = 5

\* C4: _send_webhook returns success at the first attempt answered with
\* HTTP 200 or 204 and does nothing after it: success on attempt k means
\* exactly k POSTs and k - 1 sleeps, with 1 <= k <= 3.
C4_StopAtFirstSuccess ==
    (pc = "mark" /\ AnsweredOk(send_trace) # {}) =>
      LET k == Cardinality(PostsOf(send_trace))
      IN /\ success = TRUE
         /\ AnsweredOk(send_trace) = {Len(send_trace)}
         /\ k \in 1..3
         /\ Cardinality(SleepsOf(send_trace)) = k - 1
         /\ Len(send_trace) = 2 * k - 1
         /\ \A i \in DOMAIN send_trace :
               send_trace[i].ev = (IF i % 2 = 1 THEN "post" ELSE "sleep")

C4_Witness ==
    /\ pc = "mark"
    /\ success
    /\ Cardinality(PostsOf(send_trace)) = 2
    /\ Cardinality(SleepsOf(send_trace)) = 1

\* C8: every message of a tenant goes to the URL of a primary and active
\* endpoint of that tenant if there is one, otherwise to the URL of some
\* active endpoint of the tenant; a tenant without an active endpoint gets
\* no POST and all its pending matches stay pending with alert_sent_at null.
C8_Target ==
    InRun =>
      /\ \A i \in DOMAIN batches :
           LET c == batches[i].client_id
               prim == {w \in webhooks : w.client_id = c /\ w.is_primary
                                         /\ w.is_active}
               act == {w \in webhooks : w.client_id = c /\ w.is_active}
           IN IF prim # {}
              THEN \E w \in prim : w.url = batches[i].webhook_url
              ELSE \E w \in act : w.url = batches[i].webhook_url
      /\ \A q \in posted :
           /\ q.batch \in DOMAIN batches
           /\ q.url = batches[q.batch].webhook_url
           /\ q.client_id = batches[q.batch].client_id
      /\ \A c \in Clients :
           ~HasActiveEndpoint(c) =>
              /\ \A q \in posted : q.client_id # c
              /\ \A id \in PendingOf(c) :
                    /\ MatchObj(id).alert_status = "pending"
                    /\ MatchObj(id).alert_sent_at = None
                    /\ matches[id].alert_status = "pending"
                    /\ matches[id].alert_sent_at = None

C8_Witness ==
    /\ pc = "returned"
    /\ \E q \in posted : q.url = "u1"
    /\ [client_id |-> "c1", url |-> "u2", is_primary |-> FALSE,
        is_active |-> TRUE] \in webhooks
    /\ ~HasActiveEndpoint("c2")
    /\ PendingOf("c2") # {}

EmailsFor(id) == {i \in DOMAIN emails : emails[i].match = id}

\* C9: every Match whose delivery failed after the retries becomes failed
\* and gets exactly one fallback notification if its tenant has a contact
\* email and none otherwise; a Match that was sent gets none.
C9_Fallback ==
    pc = "returned" =>
      \A i \in DOMAIN batches :
        \A id \in Range(batches[i].matches) :
          IF delivered[i]
          THEN EmailsFor(id) = {}
          ELSE /\ matches[id].alert_status = "failed"
               /\ Cardinality(EmailsFor(id)) =
                     (IF clients[matches[id].client_id] # "" THEN 1 ELSE 0)
               /\ \A e \in EmailsFor(id) :
                     emails[e].to = clients[matches[id].client_id]

C9_Witness ==
    /\ pc = "returned"
    /\ \E i, j \in DOMAIN batches :
         /\ ~delivered[i] /\ clients[batches[i].client_id] # ""
         /\ ~delivered[j] /\ clients[batches[j].client_id] = ""

\* ------------------------------------------------------------------------
\* Properties of the ingestor
\* ------------------------------------------------------------------------
UniqueDigest ==
    \A i, j \in DOMAIN content :
       i # j => content[i].content_hash # content[j].content_hash

UniqueSourceId ==
    \A i, j \in DOMAIN content :
       i # j => content[i].reddit_id # content[j].reddit_id

\* C5: after any sequence of polls no two persisted items share a digest or
\* a source_id, and an item whose digest or source_id is already taken is
\* skipped silently: it never makes the batch fail.
C5_UniqueAndSilentSkip ==
    /\ UniqueDigest
    /\ UniqueSourceId
    /\ last_poll.outcome # "integrity_error"

\* ------------------------------------------------------------------------
\* Properties of the match engine
\* ------------------------------------------------------------------------
RowsOf(c, k, cid) ==
    {m \in DOMAIN matches : /\ matches[m].client_id = c
                            /\ matches[m].keyword_id = k
                            /\ matches[m].content_id = cid}

Processed == {to_match[i] : i \in 1..(mi - 1)}

Relevant(k, cid) ==
    /\ k.is_active
    /\ \E m \in monitored : /\ m.client_id = k.client_id
                            /\ m.name = content[cid].subreddit
                            /\ m.status = "active"

\* C6 as stated: one detection pass stores exactly one Match row per
\* (tenant, keyword rule, content item) that matches, however often the
\* phrase occurs and however many phrases of the OR group match.
C6_OneRowPerRule ==
    \A cid \in Processed : \A k \in keywords :
       Cardinality(RowsOf(k.client_id, k.id, cid)) <= 1

\* the number of tokens of a text equal to a one-token phrase
Occurrences(text, phrase) ==
    Cardinality({i \in DOMAIN Split(text) : Split(text)[i] = phrase})

OneTokenPhrases(k) ==
    \A i \in DOMAIN k.phrases : Len(Split(k.phrases[i])) = 1

\* C6 as amended: one detection pass stores exactly one Match row per
\* MatchResult of the Matcher for a relevant (tenant, rule, item): one row per
\* occurrence of every matching phrase, none for a rule that is not relevant
\* or does not match.
C6_OneRowPerResult ==
    \A cid \in Processed : \A k \in keywords :
       LET rows == RowsOf(k.client_id, k.id, cid)
           text == content[cid].normalized_text
           results == find_matches(text, Split(text), _keyword_to_config(k))
       IN /\ ~Relevant(k, cid) => rows = {}
          /\ Relevant(k, cid) =>
               /\ Cardinality(rows) = Len(results)
               /\ \A i \in DOMAIN k.phrases :
                     Cardinality({m \in rows :
                                    matches[m].matched_phrase = k.phrases[i]})
                       = Cardinality({r \in DOMAIN results :
                                        results[r].matched_phrase = k.phrases[i]})
               /\ OneTokenPhrases(k) =>
                     \A i \in DOMAIN k.phrases :
                        Cardinality({m \in rows :
                                       matches[m].matched_phrase = k.phrases[i]})
                          = Occurrences(text, k.phrases[i])

C6_Witness ==
    /\ \E cid \in Processed : \E k \in keywords :
          \E a, b \in RowsOf(k.client_id, k.id, cid) :
             a # b /\ matches[a].matched_phrase = matches[b].matched_phrase
    /\ \E cid \in Processed : \E k \in keywords :
          \E a, b \in RowsOf(k.client_id, k.id, cid) :
             matches[a].matched_phrase # matches[b].matched_phrase

\* ------------------------------------------------------------------------
\* Properties of the pipeline
\* ------------------------------------------------------------------------
StatusChanged(id) ==
    \/ matches'[id].alert_status # matches[id].alert_status
    \/ matches'[id].alert_sent_at # matches[id].alert_sent_at

\* C7: every Match row the Match Engine creates is pending with a null
\* alert_sent_at, the Match Engine never changes alert_status or
\* alert_sent_at of an existing Match, and only the Dispatcher changes them.
C7_EngineCreatesPendingOnly ==
    [][ /\ \A id \in DOMAIN matches' \ DOMAIN matches :
             /\ pc = "match"
             /\ matches'[id].alert_status = "pending"
             /\ matches'[id].alert_sent_at = None
        /\ \A id \in DOMAIN matches :
             /\ id \in DOMAIN matches'
             /\ StatusChanged(id) => (pc = "loop" /\ pc' = "returned")
        /\ pc = "match" => sess_dirty' = sess_dirty
        /\ sess_dirty' # sess_dirty =>
             pc \in {"mark", "loop", "returned", "failed"} ]_vars

C7_Witness ==
    /\ pc = "match"
    /\ created # <<>>
    /\ \E id \in DOMAIN matches : matches[id].alert_status = "sent"
    /\ \E id \in DOMAIN matches : matches[id].alert_status = "failed"

ActiveNames == {m.name : m \in {x \in monitored : x.status = "active"}}
PolledNames == {poll_results[i].name : i \in DOMAIN poll_results}

DispatchStage == pc \in {"dispatch", "loop", "post", "sleep", "mark",
                         "returned"}

\* C10: within one run_pipeline call the ingest of all communities has
\* finished and is committed before the Match Engine processes an item, and
\* the Match Engine has finished and committed all its Matches before the
\* Dispatcher loads the pending matches.
C10_StagesOrdered ==
    /\ (pc = "match" \/ DispatchStage) =>
          /\ to_poll = {}
          /\ PolledNames = ActiveNames
          /\ \A i \in DOMAIN poll_results :
                Range(poll_results[i].items) \subseteq DOMAIN content
          /\ to_match \in {<<>>, Flatten(poll_results)}
    /\ DispatchStage =>
          /\ Flatten(poll_results) # <<>> => to_match = Flatten(poll_results)
          /\ mi > Len(to_match)
          /\ Range(created) \subseteq DOMAIN matches
          /\ pc # "dispatch" =>
                \A id \in Range(created) : id \in Range(pending)

C10_Witness ==
    /\ pc = "loop"
    /\ Len(poll_results) = 2
    /\ Len(to_match) = 2
    /\ Len(created) >= 3

\* C11: run_pipeline calls the Dispatcher on every tick, also when the poll
\* yielded no new item, so a match an earlier tick left pending is dispatched
\* as soon as its tenant has an active endpoint; the Match Engine is called
\* only when the poll of this tick persisted at least one new item.
C11_DispatchEveryTick ==
    /\ [](pc = "match" => Flatten(poll_results) # <<>>)
    /\ [](pc = "returned" =>
             \A id \in DOMAIN matches :
                matches[id].alert_status = "pending"
                   => ~HasActiveEndpoint(matches[id].client_id))
    /\ [][ /\ pc = "polled" =>
               pc' = IF Flatten(poll_results) # <<>> THEN "match"
                                                     ELSE "dispatch"
           /\ DOMAIN matches' # DOMAIN matches =>
               (pc = "match" /\ Flatten(poll_results) # <<>>)
           /\ (pc = "match" /\ pc' # "match") =>
               pc' \in {"dispatch", "failed"}
           /\ pc' = "idle" => pc \in {"idle", "returned", "failed"} ]_vars

C11_Witness ==
    /\ pc = "returned"
    /\ tick = 2
    /\ Flatten(poll_results) = <<>>
    /\ created = <<>>
    /\ posted # {}
    /\ \E id \in DOMAIN matches :
          /\ matches[id].alert_status = "sent"
          /\ matches[id].alert_sent_at = now
          /\ matches[id].detected_at < now

\* C12: poll_all_active never raises; a community whose poll raises is
\* reported with an empty list and every other active community is still
\* polled in the same run with its new items persisted and returned, so a
\* failing community never aborts the pipeline tick.  In the states of this
\* predicate every active name has been reported once the loop is over, no
\* community is refused because the poll of another one failed, and the
\* tick is not aborted.
C12_FailureIsolated ==
    /\ pc = "polled" => PolledNames = ActiveNames
    /\ \A i \in DOMAIN poll_results :
          /\ poll_results[i].outcome # "pending_rollback"
          /\ poll_results[i].outcome # "ok" => poll_results[i].items = <<>>
    /\ pc # "failed"

\* C13: poll_subreddit fetches the posts, waits, fetches the comments and
\* only then stores: items are persisted only by a call whose two fetches
\* succeeded, and a call one of whose fetches failed leaves the content table
\* exactly as it was and returns no item.
C13_StoreAfterBothFetches ==
    [][ (pc = "poll" /\ Len(poll_results') = Len(poll_results) + 1) =>
          LET r == poll_results'[Len(poll_results')]
          IN /\ last_poll'.name = r.name
             /\ last_poll'.outcome = r.outcome
             /\ last_poll'.steps \in {<<"posts">>,
                                      <<"posts", "sleep", "comments">>,
                                      AllSteps}
             /\ content' # content =>
                   /\ last_poll'.outcome = "ok"
                   /\ last_poll'.steps = AllSteps
             /\ last_poll'.steps # AllSteps <=>
                   last_poll'.outcome = "fetch_failed"
             /\ last_poll'.outcome = "fetch_failed" =>
                   (content' = content /\ r.items = <<>>)
             /\ \A id \in DOMAIN content :
                   id \in DOMAIN content' /\ content'[id] = content[id] ]_vars

C13_Witness ==
    /\ content # <<>>
    /\ last_poll.outcome = "fetch_failed"
    /\ last_poll.steps = <<"posts", "sleep", "comments">>
    /\ tick = 2

TimesPolled(name) ==
    Cardinality({i \in DOMAIN poll_results : poll_results[i].name = name})

\* C14: in one poll_all_active run every name with at least one active
\* monitor record is polled exactly once, however many tenants monitor it,
\* and a name without an active record is never polled.
C14_EachActiveNameOnce ==
    /\ \A m \in monitored :
          /\ TimesPolled(m.name) <= 1
          /\ m.name \notin ActiveNames => TimesPolled(m.name) = 0
    /\ PolledNames \subseteq {m.name : m \in monitored}
    /\ pc = "poll" => PolledNames \cap to_poll = {}
    /\ pc \in {"polled", "match", "dispatch", "loop", "post", "sleep", "mark",
               "returned", "failed"} =>
          \A name \in ActiveNames : TimesPolled(name) = 1

C14_Witness ==
    /\ pc = "polled"
    /\ \E m1, m2 \in monitored :
          /\ m1.name = m2.name
          /\ m1.client_id # m2.client_id
          /\ m1.status = "active" /\ m2.status = "active"
          /\ TimesPolled(m1.name) = 1
    /\ \E m1, m2 \in monitored :
          /\ m1.name = m2.name
          /\ m1.status = "active" /\ m2.status = "private"
          /\ TimesPolled(m1.name) = 1
    /\ \E m \in monitored :
          m.name \notin ActiveNames /\ TimesPolled(m.name) = 0

KeywordOf(m) == CHOOSE k \in keywords : k.id = m.keyword_id

Silenced(k, t) == k.silenced_until # None /\ k.silenced_until > t

\* C15: the Match Engine treats a rule whose silenced_until lies in the
\* future as inactive, whatever its is_active flag is, and a rule with
\* is_active = false never produces a Match: every Match row comes from a
\* rule that is active and not silenced at the time of detection.
C15_SilencedIsInactive ==
    \A id \in DOMAIN matches :
       /\ KeywordOf(matches[id]).is_active
       /\ ~Silenced(KeywordOf(matches[id]), matches[id].detected_at)

SameTenantAndItem(m) ==
    {x \in DOMAIN matches : /\ matches[x].client_id = m.client_id
                            /\ matches[x].content_id = m.content_id}

\* C16: also_matched of a Match is the set of distinct phrases matched on
\* its item for its tenant, over all rules of the tenant, minus its own
\* phrase: no own phrase, no duplicate, no phrase that only another tenant
\* matched, and the same phrase set for all Matches of the tenant and item.
C16_AlsoMatched ==
    \A id \in DOMAIN matches :
       LET m == matches[id]
           phrases == {matches[x].matched_phrase : x \in SameTenantAndItem(m)}
       IN /\ Range(m.also_matched) = phrases \ {m.matched_phrase}
          /\ Len(m.also_matched) = Cardinality(Range(m.also_matched))
          /\ \A x \in SameTenantAndItem(m) :
                Range(matches[x].also_matched) \cup {matches[x].matched_phrase}
                  = Range(m.also_matched) \cup {m.matched_phrase}

C16_Witness ==
    \E a, b, c \in DOMAIN matches :
       /\ matches[a].content_id = matches[b].content_id
       /\ matches[a].client_id # matches[b].client_id
       /\ matches[a].also_matched # <<>>
       /\ matches[b].matched_phrase # matches[a].matched_phrase
       /\ matches[b].matched_phrase \notin Range(matches[a].also_matched)
       /\ c # a
       /\ c \in SameTenantAndItem(matches[a])
       /\ matches[c].matched_phrase = matches[a].matched_phrase
       /\ matches[c].keyword_id # matches[a].keyword_id

\* the matches carried by the message of a POST
Carried(p) == Range(batches[p.batch].matches)

\* C17 as stated: if pending match m1 was detected before pending match m2,
\* the message carrying m1 is not POSTed after the message carrying m2, also
\* when the two belong to different tenants.
C17_GlobalOrder ==
    \A p1, p2 \in posted : \A m1 \in Carried(p1), m2 \in Carried(p2) :
       matches[m1].detected_at < matches[m2].detected_at
          => p1.batch <= p2.batch

EarliestPending(c) ==
    Min({matches[id].detected_at : id \in PendingOf(c)})

\* C17 as amended: within a tenant the messages are POSTed in ascending
\* detected_at order; the tenants are handled one after the other, in the
\* order of their earliest pending match, all messages of a tenant before
\* the first message of the next one.
C17_OrderPerTenant ==
    /\ \A p1, p2 \in posted : \A m1 \in Carried(p1), m2 \in Carried(p2) :
          (/\ p1.client_id = p2.client_id
           /\ matches[m1].detected_at < matches[m2].detected_at)
             => p1.batch <= p2.batch
    /\ \A p1, p2 \in posted :
          (p1.client_id # p2.client_id /\ p1.batch < p2.batch)
             => EarliestPending(p1.client_id) <= EarliestPending(p2.client_id)
    /\ \A p1, p2, p3 \in posted :
          (/\ p1.batch < p2.batch /\ p2.batch < p3.batch
           /\ p1.client_id = p3.client_id)
             => p2.client_id = p1.client_id

C17_Witness ==
    \E p1, p2, p3 \in posted :
       /\ p1.batch < p2.batch /\ p2.batch < p3.batch
       /\ p1.client_id = p2.client_id
       /\ p3.client_id # p1.client_id
       /\ \E m1 \in Carried(p1), m2 \in Carried(p2), m3 \in Carried(p3) :
             /\ matches[m1].detected_at < matches[m3].detected_at
             /\ matches[m3].detected_at < matches[m2].detected_at

\* C18: a delivery failure for the message of one tenant (all retries
\* exhausted) does not stop the dispatch run: every tenant with pending
\* matches and an active endpoint still has its messages POSTed and its
\* matches updated when the run returns.
C18_FailureDoesNotStopRun ==
    (pc = "returned" /\ pending # <<>>) =>
       /\ Len(delivered) = Len(batches)
       /\ \A c \in Clients :
             (PendingOf(c) # {} /\ HasActiveEndpoint(c)) =>
                /\ \E p \in posted : p.client_id = c
                /\ \A id \in PendingOf(c) :
                      /\ \E p \in posted : id \in Carried(p)
                      /\ SentState(matches[id]) \/ FailedState(matches[id])

C18_Witness ==
    /\ pc = "returned"
    /\ \E i, j \in DOMAIN delivered :
          /\ i < j
          /\ ~delivered[i]
          /\ delivered[j]
          /\ batches[i].client_id # batches[j].client_id
          /\ \A id \in Range(batches[i].matches) : FailedState(matches[id])
          /\ \A id \in Range(batches[j].matches) : SentState(matches[id])

\* C19: the status updates of one tenant's dispatch are committed as a unit
\* of their own: once the message of a tenant has been delivered and its
\* matches marked sent, the updates are persisted even if the dispatch of
\* another tenant raises later in the run and the run does not reach its end.
C19_CommittedPerTenant ==
    (pc = "failed" /\ bi \in DOMAIN batches) =>
       \A i \in DOMAIN delivered :
          (delivered[i] /\ batches[i].client_id # batches[bi].client_id) =>
             \A id \in Range(batches[i].matches) : SentState(matches[id])

\* ------------------------------------------------------------------------
\* Properties of the retention sweep
\* ------------------------------------------------------------------------
SweepOrder == <<"matches", "content", "commit">>

\* C20: the retention sweep deletes the Match rows with detected_at < cutoff
\* before the content rows with fetched_at < cutoff, where cutoff is the
\* clock minus RETENTION_DAYS days, and commits once, after both deletions:
\* the steps of a sweep are a prefix of (matches, content, commit), each
\* DELETE takes exactly the rows older than the cutoff, and the tables change
\* only in the one commit, which leaves no row older than the cutoff and
\* every content row that is not older.
C20_MatchesBeforeContent ==
    /\ [](/\ Len(sweep.steps) <= Len(SweepOrder)
          /\ sweep.steps = SubSeq(SweepOrder, 1, Len(sweep.steps)))
    /\ [](pc # "idle" => sweep.cutoff = now - RETENTION_DAYS * 24 * 60 * 60)
    /\ []((Len(sweep.steps) \in {1, 2} /\ pc # "idle") =>
             sweep.matches_deleted
                = {id \in DOMAIN matches : matches[id].detected_at < sweep.cutoff})
    /\ []((Len(sweep.steps) = 2 /\ pc # "idle") =>
             sweep.content_deleted
                = {id \in DOMAIN content : content[id].fetched_at < sweep.cutoff})
    /\ [][ (matches' # matches \/ content' # content) =>
              /\ sweep.steps = <<"matches", "content">>
              /\ sweep'.steps = SweepOrder
              /\ DOMAIN content'
                    = {id \in DOMAIN content : content[id].fetched_at >= sweep.cutoff}
              /\ \A id \in DOMAIN content' : content'[id] = content[id]
              /\ \A id \in DOMAIN matches :
                    /\ matches[id].detected_at < sweep.cutoff => id \notin DOMAIN matches'
                    /\ (/\ matches[id].detected_at >= sweep.cutoff
                        /\ matches[id].content_id \in DOMAIN content')
                          => (id \in DOMAIN matches' /\ matches'[id] = matches[id])
              /\ DOMAIN matches' \subseteq DOMAIN matches ]_vars
    /\ [][ sweep'.steps = SweepOrder =>
              (sweep.steps = SweepOrder \/ sweep.steps = <<"matches", "content">>) ]_vars

\* a sweep has committed: it deleted a match row and a content row, and a
\* younger match row and a younger content row are still there
C20_Witness ==
    /\ pc = "swept"
    /\ sweep.steps = SweepOrder
    /\ sweep.matches_deleted # {}
    /\ sweep.content_deleted # {}
    /\ sweep.cascaded = {}
    /\ DOMAIN matches # {}
    /\ DOMAIN content # {}
    /\ \A id \in DOMAIN matches : matches[id].detected_at >= sweep.cutoff
    /\ \A id \in DOMAIN content : content[id].fetched_at >= sweep.cutoff

\* ------------------------------------------------------------------------
\* Properties of the worker process
\* ------------------------------------------------------------------------
Jobs == worker.jobs

\* C21: pipeline_job and retention_job each open a session of their own and
\* close it exactly once on every exit path: an instance that is executing
\* holds an open session that was never closed, an instance that is done
\* has closed it once, after a return or after a logged exception. No
\* exception leaves a job: main is not ended by the startup run, nothing
\* reaches the scheduler, and after any tick, failed or not, the scheduler
\* is started and the next trigger can fire.
C21_SessionClosedOnce ==
    /\ \A i \in DOMAIN Jobs :
          /\ Jobs[i].at # "done" => (Jobs[i].session = "open" /\ Jobs[i].closes = 0)
          /\ Jobs[i].at = "done" =>
                /\ Jobs[i].session = "closed"
                /\ Jobs[i].closes = 1
                /\ Jobs[i].outcome \in {"ok", "failed"}
    /\ worker.escaped = 0
    /\ worker.phase # "crashed"
    /\ (worker.phase = "startup" /\ Jobs[1].at = "done") => ENABLED MainSchedulerStart
    /\ (worker.phase = "scheduling" /\ worker.fires < MaxFires) =>
          (ENABLED IntervalFire /\ ENABLED CronFire)

\* the startup run failed, a later pipeline tick has run to its end, and a
\* failed retention job is followed by one that is executing
C21_Witness ==
    /\ worker.phase = "scheduling"
    /\ Jobs[1].outcome = "failed"
    /\ \E i, j, k \in DOMAIN Jobs :
          /\ 1 < i
          /\ Jobs[i].job = "pipeline" /\ Jobs[i].at = "done" /\ Jobs[i].outcome = "ok"
          /\ j < k
          /\ Jobs[j].job = "retention" /\ Jobs[j].outcome = "failed" /\ Jobs[j].closes = 1
          /\ Jobs[k].job = "retention" /\ Jobs[k].session = "open"

\* C22: at most one pipeline tick is executing at any time; the scheduler is
\* started only after the startup run is done, and a pipeline tick begins
\* only when every earlier pipeline tick is done.
C22_OneTickAtATime ==
    /\ [](Cardinality(Running("pipeline")) <= 1)
    /\ [](worker.phase = "scheduling" => Jobs[1].at = "done")
    /\ [][ (Len(worker'.jobs) > Len(Jobs) /\ worker'.jobs[Len(worker'.jobs)].job = "pipeline") =>
              \A i \in DOMAIN Jobs : Jobs[i].job = "pipeline" => Jobs[i].at = "done" ]_vars

\* an interval trigger was skipped because a tick was executing, and a
\* later one has started a tick after that tick was done
C22_Witness ==
    /\ worker.skipped >= 1
    /\ \E i \in Running("pipeline") :
          /\ Jobs[i].thread = "pool"
          /\ \E j \in 2..(i - 1) : Jobs[j].job = "pipeline" /\ Jobs[j].at = "done"

\* ------------------------------------------------------------------------
\* Properties of the normalizer
\* ------------------------------------------------------------------------
\* C23: every row of reddit_content has a non-empty normalized_text: a raw
\* item whose composed text normalizes to the empty text is not persisted.
C23_NormalizedTextNonEmpty ==
    \A id \in DOMAIN content : content[id].normalized_text # <<>>

\* ------------------------------------------------------------------------
\* Properties of the matcher
\* ------------------------------------------------------------------------
\* the calls of find_matches made so far: the rule and the results
Calls ==
    (IF probe.called
     THEN {[keyword |-> probe.keyword, results |-> probe.results]} ELSE {})
    \cup (IF probe.called /\ probe.variant.kind # "none"
          THEN {[keyword |-> probe.variant.keyword, results |-> probe.variant.results]}
          ELSE {})

\* tokens as the matcher compares them under the rule
Compared(keyword, toks) == IF keyword.use_stemming THEN StemAll(toks) ELSE toks

Span(indices) == Max(Range(indices)) - Min(Range(indices))

\* the partial assignments extended by a position for the tokens from j on
RECURSIVE Extend(_, _, _)
Extend(positions, j, partial) ==
    IF j > Len(positions) THEN partial
    ELSE Extend(positions, j + 1,
                UNION {{Append(f, i) : i \in positions[j] \ Range(f)} : f \in partial})

\* the assignments of one content position to each token of the phrase where
\* the content token equals the phrase token and no position is used twice
Assignments(keyword, phrase) ==
    LET content_tokens == Compared(keyword, probe.tokens)
        phrase_tokens == Compared(keyword, LowerAll(phrase))
    IN Extend([j \in DOMAIN phrase |->
                  {i \in DOMAIN content_tokens : content_tokens[i] = phrase_tokens[j]}],
              1, {<<>>})

Increasing(f) == \A j, k \in DOMAIN f : j < k => f[j] < f[k]

\* the results of a call for a phrase
ResultsFor(c, phrase) ==
    {i \in DOMAIN c.results : c.results[i].matched_phrase = Join(phrase)}

MultiToken(keyword) == {p \in Range(keyword.phrases) : Len(p) > 1}

\* C24: every combination emitted for a multi-token phrase assigns one
\* content position to each phrase token, the content token there equals the
\* phrase token (both stemmed if the rule says so), the positions are
\* pairwise distinct and max - min < W; when every such assignment spans W
\* or more, nothing is emitted for the phrase.
C24_CombinationWithinWindow ==
    \A c \in Calls : \A p \in MultiToken(c.keyword) :
       LET assignments == Assignments(c.keyword, p)
       IN /\ \A i \in ResultsFor(c, p) :
                /\ c.results[i].indices \in assignments
                /\ Span(c.results[i].indices) < c.keyword.proximity_window
          /\ (\A f \in assignments : Span(f) >= c.keyword.proximity_window)
                => ResultsFor(c, p) = {}

\* the tokens of a phrase stand exactly W apart: nothing is emitted at window
\* W, and the call with window W + 1 emits the combination of span W
C24_Witness ==
    /\ probe.called
    /\ probe.variant.kind = "wider"
    /\ probe.keyword.exclusions = <<>>
    /\ probe.results = <<>>
    /\ probe.variant.keyword.proximity_window = probe.keyword.proximity_window + 1
    /\ \E p \in MultiToken(probe.keyword) :
          /\ Assignments(probe.keyword, p) # {}
          /\ \E i \in DOMAIN probe.variant.results :
                /\ probe.variant.results[i].matched_phrase = Join(p)
                /\ Span(probe.variant.results[i].indices) = probe.keyword.proximity_window

\* an exclusion term of the rule, lowercased and compared as the rule says,
\* is a token of the content
ExclusionOccurs(keyword) ==
    \E e \in DOMAIN keyword.exclusions :
       Compared(keyword, <<Lower(keyword.exclusions[e])>>)[1]
          \in Range(Compared(keyword, probe.tokens))

\* the assignments of a phrase that fit the window of the rule
InWindow(keyword, phrase) ==
    {f \in Assignments(keyword, phrase) : Span(f) < keyword.proximity_window}

\* C25: with require_order = true the positions of every emitted combination
\* are strictly increasing in phrase-token order; a content where the phrase
\* tokens stand within the window only in another order yields no match for
\* the phrase, and the same content and rule with require_order = false
\* yield one.
C25_RequireOrder ==
    /\ \A c \in Calls : \A p \in MultiToken(c.keyword) :
          c.keyword.require_order =>
             /\ \A i \in ResultsFor(c, p) : Increasing(c.results[i].indices)
             /\ (\A f \in InWindow(c.keyword, p) : ~Increasing(f)) => ResultsFor(c, p) = {}
    /\ (probe.called /\ probe.variant.kind = "unordered" /\ ~ExclusionOccurs(probe.keyword)) =>
          \A p \in MultiToken(probe.keyword) :
             InWindow(probe.keyword, p) # {} =>
                ResultsFor([keyword |-> probe.variant.keyword, results |-> probe.variant.results], p) # {}

\* the tokens of a phrase stand in the window in the other order only: no
\* match with require_order = true, a match with require_order = false
C25_Witness ==
    /\ probe.called
    /\ probe.keyword.require_order
    /\ probe.results = <<>>
    /\ probe.variant.kind = "unordered"
    /\ \E i \in DOMAIN probe.variant.results :
          /\ Len(probe.variant.results[i].indices) > 1
          /\ ~Increasing(probe.variant.results[i].indices)

\* the call and its second call with a wider window
Base == [keyword |-> probe.keyword, results |-> probe.results]

Wider == [keyword |-> probe.variant.keyword, results |-> probe.variant.results]

\* every phrase with a match in the first call has one in the second
StillMatches ==
    \A p \in Range(probe.keyword.phrases) :
       ResultsFor(Base, p) # {} => ResultsFor(Wider, p) # {}

\* C26 as stated: if find_matches emits a match for a phrase at window W, it
\* emits a match for that phrase at every window W' > W, all other fields of
\* the rule unchanged.
C26_MonotoneInWindow_asStated ==
    (probe.called /\ probe.variant.kind = "wider") => StillMatches

\* C26: for a rule without proximity-scoped exclusions (no exclusions, or
\* exclusion_scope anywhere), if find_matches emits a match for a phrase at
\* window W, it emits a match for that phrase at every window W' > W, all
\* other fields of the rule unchanged.
C26_MonotoneInWindow ==
    (/\ probe.called
     /\ probe.variant.kind = "wider"
     /\ (probe.keyword.exclusions = <<>> \/ probe.keyword.exclusion_scope = "anywhere"))
        => StillMatches

\* a rule with exclusions scoped anywhere matches at W, and at the wider
\* window it matches with more combinations
C26_Witness ==
    /\ probe.called
    /\ probe.variant.kind = "wider"
    /\ probe.keyword.exclusions # <<>>
    /\ probe.keyword.exclusion_scope = "anywhere"
    /\ probe.results # <<>>
    /\ Len(probe.variant.results) > Len(probe.results)

\* C27: with exclusion_scope anywhere, when an exclusion term (lowercased,
\* stemmed when use_stemming is on) equals a content token, find_matches
\* returns the empty list whatever the phrases are; when no exclusion term
\* occurs in the content, the call returns what it returns for the same rule
\* without exclusions.
C27_AnywhereExclusion ==
    /\ \A c \in Calls :
          (c.keyword.exclusion_scope = "anywhere" /\ ExclusionOccurs(c.keyword))
             => c.results = <<>>
    /\ (probe.called /\ probe.variant.kind = "no_exclusions" /\ ~ExclusionOccurs(probe.keyword))
          => probe.results = probe.variant.results

\* the content holds the stem of the exclusion term and the phrase: nothing
\* is returned, and the same rule without exclusions matches
C27_Witness ==
    /\ probe.called
    /\ probe.keyword.exclusion_scope = "anywhere"
    /\ probe.keyword.use_stemming
    /\ probe.keyword.exclusions = <<T_scams>>
    /\ ExclusionOccurs(probe.keyword)
    /\ probe.results = <<>>
    /\ probe.variant.kind = "no_exclusions"
    /\ probe.variant.results # <<>>

\* C28: normalization is idempotent: normalizing the normalized text of any
\* raw text gives that normalized text again.
C28_NormalizeIdempotent ==
    probe.passes = 2 => probe.twice = probe.once

\* the Match rows stored for a content item
RowsOfContent(cid) == {m \in DOMAIN matches : matches[m].content_id = cid}

\* C29: process_content commits exactly once when it created at least one
\* Match for the item, and not at all when it created none (no relevant
\* tenant, no active rule, or no rule matched).
C29_CommitIffCreated ==
    last_call # NoCall =>
       LET cid == last_call.content_id
           text == content[cid].normalized_text
           matching == {k \in keywords :
                          /\ Relevant(k, cid)
                          /\ find_matches(text, Split(text), _keyword_to_config(k)) # <<>>}
       IN /\ last_call.created = Cardinality(RowsOfContent(cid))
          /\ last_call.created > 0 => last_call.commits = 1
          /\ last_call.created = 0 => last_call.commits = 0
          /\ matching = {} => last_call.commits = 0

\* one call that commits its rows and, in the same batch, one call for an
\* item that a relevant active rule does not match and that does not commit
C29_Witness ==
    /\ last_call # NoCall
    /\ last_call.commits = 0
    /\ \E k \in keywords : Relevant(k, last_call.content_id)
    /\ \E cid \in Processed : RowsOfContent(cid) # {}

\* the tenants with a relevant rule that matches the item
MatchingTenants(cid) ==
    LET text == content[cid].normalized_text
    IN {k.client_id : k \in {r \in keywords :
                               /\ Relevant(r, cid)
                               /\ find_matches(text, Split(text), _keyword_to_config(r)) # <<>>}}

\* C30: a Match row of tenant T exists only if T has a MonitoredSubreddit row
\* with the community name of the item and status active, and the rule of the
\* row is owned by T and active; every tenant with a relevant rule that
\* matches the item has Match rows of its own, with its tenant id and the id
\* of its rule.
C30_TenantFanOut ==
    /\ \A m \in DOMAIN matches :
          /\ \E s \in monitored : /\ s.client_id = matches[m].client_id
                                  /\ s.name = content[matches[m].content_id].subreddit
                                  /\ s.status = "active"
          /\ \E k \in keywords : /\ k.id = matches[m].keyword_id
                                 /\ k.client_id = matches[m].client_id
                                 /\ k.is_active
    /\ \A cid \in Processed : \A c \in MatchingTenants(cid) :
          \E m \in RowsOfContent(cid) :
             /\ matches[m].client_id = c
             /\ \E k \in keywords : k.id = matches[m].keyword_id /\ k.client_id = c

\* one item matched by rules of two tenants has rows of both, while an item
\* of a community that one of them does not actively monitor has rows of the
\* other only
C30_Witness ==
    /\ \E cid \in Processed :
          /\ Cardinality(MatchingTenants(cid)) = 2
          /\ {matches[m].client_id : m \in RowsOfContent(cid)} = {"c1", "c2"}
    /\ \E cid \in Processed :
          /\ content[cid].subreddit = "s2"
          /\ \E k \in keywords : k.client_id = "c2" /\ k.is_active /\ ~Relevant(k, cid)
          /\ {matches[m].client_id : m \in RowsOfContent(cid)} = {"c1"}

\* the call without the exclusions
NoExclusions == [keyword |-> probe.variant.keyword, results |-> probe.variant.results]

\* the positions of the content that hold an exclusion term of the rule
ExclusionPositions(keyword) ==
    {i \in DOMAIN probe.tokens :
        \E e \in DOMAIN keyword.exclusions :
           Compared(keyword, <<Lower(keyword.exclusions[e])>>)[1]
              = Compared(keyword, probe.tokens)[i]}

\* an exclusion term stands at most W tokens before the first or after the
\* last matched token
NearExclusion(keyword, indices) ==
    \E i \in ExclusionPositions(keyword) :
       /\ i >= Min(Range(indices)) - keyword.proximity_window
       /\ i <= Max(Range(indices)) + keyword.proximity_window

\* C31: with exclusion_scope proximity an occurrence is rejected exactly when
\* a token in [min(matched) - W, max(matched) + W] is an exclusion term: the
\* call returns the occurrences of the call without exclusions that have no
\* exclusion term in that range, each occurrence judged on its own.
C31_ProximityExclusion ==
    (/\ probe.called
     /\ probe.keyword.exclusion_scope = "proximity"
     /\ probe.variant.kind = "no_exclusions")
       => probe.results =
             SelectSeq(probe.variant.results,
                       LAMBDA r : ~NearExclusion(probe.keyword, r.indices))

\* two occurrences of a phrase: the one with the exclusion term W tokens away
\* is rejected, the one with it W + 1 tokens away is kept
C31_Witness ==
    /\ probe.called
    /\ probe.keyword.exclusion_scope = "proximity"
    /\ probe.variant.kind = "no_exclusions"
    /\ Len(probe.results) = 1
    /\ Len(probe.variant.results) = 2
    /\ probe.variant.results[1].matched_phrase = probe.variant.results[2].matched_phrase
    /\ \E i \in ExclusionPositions(probe.keyword) :
          i = Max(Range(probe.results[1].indices)) + probe.keyword.proximity_window + 1

\* the characters text[span_start:span_end] hold the token at a matched index
Covers(r, i) ==
    LET token_offsets == _build_token_index(probe.tokens, Join(probe.tokens), 0)
    IN /\ r.span_start <= token_offsets[i]
       /\ token_offsets[i] + Len(probe.tokens[i]) <= r.span_end

\* C32: for every MatchResult 0 <= span_start < span_end <= len(text), and
\* text[span_start:span_end] covers every matched token, for single-token and
\* multi-token phrases, whether or not the tokens occur in phrase order.
C32_SpanCoversMatch ==
    \A c \in Calls : \A i \in DOMAIN c.results :
       LET r == c.results[i]
       IN /\ 0 <= r.span_start
          /\ r.span_start < r.span_end
          /\ r.span_end <= Len(Join(probe.tokens))
          /\ \A j \in Range(r.indices) : Covers(r, j)

\* ------------------------------------------------------------------------
\* Properties of the alert status over the ticks
\* ------------------------------------------------------------------------
\* the stored Match rows that are sent or failed
Final == {id \in DOMAIN matches : matches[id].alert_status \in {"sent", "failed"}}

\* the matches of the batches POSTed so far in this run
PostedMatches ==
    UNION {Range(batches[p.batch].matches) : p \in {q \in posted : q.batch \in DOMAIN batches}}

\* C33: alert_status only moves from pending to sent or from pending to
\* failed; a Match that is sent or failed is never loaded, POSTed or modified
\* by a later dispatch_pending run.
C33_StatusIsFinal ==
    [][/\ \A id \in DOMAIN matches :
             /\ id \in DOMAIN matches'
             /\ matches'[id].alert_status # matches[id].alert_status =>
                   /\ matches[id].alert_status = "pending"
                   /\ matches'[id].alert_status \in {"sent", "failed"}
       /\ \A id \in Final :
             /\ matches'[id] = matches[id]
             /\ pending' # pending => id \notin Range(pending')
             /\ posted' # posted => id \notin PostedMatches'
             /\ sess_dirty' # sess_dirty => id \notin DOMAIN sess_dirty']_vars

\* in a later tick the dispatcher has loaded and POSTed a pending match while
\* a match that failed and a match that was sent in an earlier tick are
\* stored
C33_Witness ==
    /\ tick = 2
    /\ pc = "mark"
    /\ PostedMatches # {}
    /\ \E id \in Final : matches[id].alert_status = "failed"
    /\ \E id \in Final : matches[id].alert_status = "sent"

\* the batches of the worker's run and of the API process's run that were
\* delivered
DeliveredBatches ==
    {[by |-> "worker", matches |-> batches[i].matches] :
        i \in {j \in DOMAIN delivered : delivered[j]}}
    \cup {[by |-> "api", matches |-> api.batches[i].matches] :
             i \in {j \in DOMAIN api.delivered : api.delivered[j]}}

\* C34: no Match is carried by more than one successfully delivered outgoing
\* message, also when the dispatch_pending runs of the worker and of the API
\* process overlap.
C34_DeliveredOnce ==
    \A id \in DOMAIN matches :
       Cardinality({d \in DeliveredBatches : id \in Range(d.matches)}) <= 1

\* C35: every persisted content item is processed by the match engine
\* exactly once over all ticks: when the worker is idle after a tick, every
\* stored item has, for every relevant rule, exactly the Match rows of one
\* process_content call, also when the tick that persisted the item failed
\* after the ingest commit.
C35_MatchedExactlyOnce ==
    (pc = "idle" /\ tick >= 1) =>
       \A cid \in DOMAIN content : \A k \in keywords :
          LET text == content[cid].normalized_text
              results == find_matches(text, Split(text), _keyword_to_config(k))
          IN Relevant(k, cid) =>
                Cardinality(RowsOf(k.client_id, k.id, cid)) = Len(results)

\* the raw items that every listing of a community holds: the items a
\* successful poll of the community has fetched
FetchedForSure(name) ==
    {item \in UNION {Range(RawItems(name, l)) : l \in feed[name]} :
        \A l \in feed[name] : item \in Range(RawItems(name, l))}

\* the normalized text _store_content computes for a raw item
TextOf(item) ==
    normalize_text(IF item.title # <<>> THEN item.title \o <<" ">> \o item.body
                   ELSE item.body)

\* C36: when the match stage of a tick is over, every item fetched in the
\* tick from a community that a tenant actively monitors and that satisfies
\* an active rule of the tenant has a Match of that tenant, also when an item
\* with the same normalized text was ingested earlier from a community the
\* tenant does not monitor.
C36_MatchDespiteCrossPost ==
    pc = "dispatch" =>
       \A p \in DOMAIN poll_results :
          poll_results[p].outcome = "ok" =>
             \A item \in FetchedForSure(poll_results[p].name) : \A k \in keywords :
                LET text == TextOf(item)
                IN (/\ k.is_active
                    /\ \E m \in monitored : /\ m.client_id = k.client_id
                                            /\ m.name = item.subreddit
                                            /\ m.status = "active"
                    /\ find_matches(text, Split(text), _keyword_to_config(k)) # <<>>)
                      => \E id \in DOMAIN matches :
                            /\ matches[id].client_id = k.client_id
                            /\ matches[id].keyword_id = k.id
                            /\ content[matches[id].content_id].normalized_text = text

\* ------------------------------------------------------------------------
\* Referential integrity over the retention sweep
\* ------------------------------------------------------------------------
\* C37: the retention sweep removes no content row that a match row left by
\* the sweep refers to: a match row with detected_at >= cutoff, which the
\* DELETE on matches leaves alone, is in the table after the commit of the
\* sweep, and so is its content row, whatever the fetched_at of that content
\* row is.
C37_SurvivingMatchKeepsContent ==
    [][ pc = "sweep_commit" =>
          \A id \in DOMAIN matches :
             matches[id].detected_at >= sweep.cutoff
                => /\ id \in DOMAIN matches'
                   /\ matches[id].content_id \in DOMAIN content' ]_vars

\* ------------------------------------------------------------------------
\* The temporary silence of the bot and the soft delete of the API
\* (bot/commands/remove.py, bot/client.py, api/keywords.py)
\* ------------------------------------------------------------------------
MaxClock == 2
Durations == {1}

silenceVars == <<api, last_call, probe, worker, sweep, clients, webhooks, monitored, feed, content, matches, tick, pollVars, engineVars, sess_dirty, pc, dispatchVars>>

\* the row of the keywords table with this id, replaced
WithRow(rows, row) == {k \in rows : k.id # row.id} \cup {row}

\* scheduler.add_job(..., id=job_id, replace_existing=True)
add_job(jobs, job) == {j \in jobs : j.id # job.id} \cup {job}

\* remove.py 16-30: the scheduled callback; it reads the row whatever its
\* is_active is, and looks at silenced_until only
_reactivate_keyword(rows, keyword_id) ==
    LET found == {k \in rows : k.id = keyword_id}
    IN IF found # {} /\ (CHOOSE k \in found : TRUE).silenced_until # None
       THEN WithRow(rows, [(CHOOSE k \in found : TRUE) EXCEPT !.is_active = TRUE,
                                                              !.silenced_until = None])
       ELSE rows

\* remove.py 33-49
_restore_phrase(rows, keyword_id, phrase) ==
    LET found == {k \in rows : k.id = keyword_id}
    IN IF found # {} /\ phrase \notin Range((CHOOSE k \in found : TRUE).phrases)
       THEN WithRow(rows, [(CHOOSE k \in found : TRUE) EXCEPT !.phrases = Append(@, phrase)])
       ELSE rows

\* remove.py 72-83: the active rules of the tenant that hold the phrase
RemoveHits(c, search) ==
    {k \in keywords : /\ k.client_id = c
                      /\ k.is_active
                      /\ search \in Range(k.phrases)}

\* remove_command, remove.py 58-204, with exactly one rule found; duration
\* is None for the permanent removal
RemoveCommand(c, search, duration) ==
    /\ Cardinality(RemoveHits(c, search)) = 1
    /\ LET matched_kw == CHOOSE k \in RemoveHits(c, search) : TRUE
           remaining_phrases == SelectSeq(matched_kw.phrases, LAMBDA p : p # search)
           is_last_phrase == remaining_phrases = <<>>
           reactivate_at == now + duration
           job_id == [keyword |-> matched_kw.id, search |-> search]
       IN IF duration # None
          THEN IF is_last_phrase
               THEN /\ keywords' = WithRow(keywords, [matched_kw EXCEPT !.is_active = FALSE,
                                                                      !.silenced_until = reactivate_at])
                    /\ bot' = [bot EXCEPT !.jobs = add_job(@, [id |-> job_id,
                                                               fn |-> "_reactivate_keyword",
                                                               keyword_id |-> matched_kw.id,
                                                               phrase |-> <<>>,
                                                               run_date |-> reactivate_at])]
               ELSE /\ keywords' = WithRow(keywords, [matched_kw EXCEPT !.phrases = remaining_phrases])
                    /\ bot' = [bot EXCEPT !.jobs = add_job(@, [id |-> job_id,
                                                               fn |-> "_restore_phrase",
                                                               keyword_id |-> matched_kw.id,
                                                               phrase |-> search,
                                                               run_date |-> reactivate_at])]
          ELSE /\ keywords' = WithRow(keywords,
                                IF is_last_phrase
                                THEN [matched_kw EXCEPT !.is_active = FALSE]
                                ELSE [matched_kw EXCEPT !.phrases = remaining_phrases])
               /\ bot' = bot
    /\ UNCHANGED <<now, silenceVars>>

remove_command ==
    \E c \in Clients : \E k \in keywords : \E search \in Range(k.phrases) :
       \E duration \in Durations \cup {None} : RemoveCommand(c, search, duration)

\* api/keywords.py 95-104; _get_keyword_or_404 (17-30) finds the rule of the
\* tenant whatever its is_active is
delete_keyword ==
    \E k \in keywords :
       /\ keywords' = WithRow(keywords, [k EXCEPT !.is_active = FALSE])
       /\ bot' = [bot EXCEPT !.deleted = @ \cup {k.id}]
       /\ UNCHANGED <<now, silenceVars>>

\* api/keywords.py 78-92 with a payload that sets is_active; a rule the
\* tenant enables again is no longer a deleted one
update_keyword ==
    \E k \in keywords : \E is_active \in BOOLEAN :
       /\ keywords' = WithRow(keywords, [k EXCEPT !.is_active = is_active])
       /\ bot' = [bot EXCEPT !.deleted = IF is_active THEN @ \ {k.id} ELSE @]
       /\ UNCHANGED <<now, silenceVars>>

\* the scheduler of app/main.py runs a date job once its run_date is reached
RunDateJob ==
    \E job \in bot.jobs :
       /\ job.run_date <= now
       /\ keywords' = IF job.fn = "_reactivate_keyword"
                      THEN _reactivate_keyword(keywords, job.keyword_id)
                      ELSE _restore_phrase(keywords, job.keyword_id, job.phrase)
       /\ bot' = [bot EXCEPT !.jobs = @ \ {job}]
       /\ UNCHANGED <<now, silenceVars>>

\* bot/client.py 84-122: the rows the startup looks at
SilencedRows(rows) == {k \in rows : k.silenced_until # None /\ ~k.is_active}

\* bot/client.py 84-122, called by on_ready (line 29). The jobs of the
\* scheduler live in memory: after a restart of the process there are none.
_reschedule_pending_reactivations(restarted) ==
    LET silenced == SilencedRows(keywords)
        expired == {k \in silenced : k.silenced_until <= now}
        kept == IF restarted THEN {} ELSE bot.jobs
        added == {[id |-> [keyword |-> k.id, search |-> <<>>],
                   fn |-> "_reactivate_keyword",
                   keyword_id |-> k.id,
                   phrase |-> <<>>,
                   run_date |-> k.silenced_until] : k \in silenced \ expired}
    IN /\ keywords' = (keywords \ expired)
                         \cup {[k EXCEPT !.is_active = TRUE, !.silenced_until = None] : k \in expired}
       /\ bot' = [bot EXCEPT !.jobs = {j \in kept : \A a \in added : a.id # j.id} \cup added]
       /\ UNCHANGED <<now, silenceVars>>

on_ready == \E restarted \in BOOLEAN : _reschedule_pending_reactivations(restarted)

ClockTick ==
    /\ now < MaxClock
    /\ now' = now + 1
    /\ UNCHANGED <<bot, keywords, silenceVars>>

SilenceKeywords ==
    { KeywordRow(1, "c1", <<T_bet>>), KeywordRow(2, "c1", <<T_odds, T_Scam>>) }

InitSilence ==
    /\ clients = [c \in Clients |-> IF c = "c1" THEN "c1@example.com" ELSE ""]
    /\ webhooks = {}
    /\ monitored = {}
    /\ keywords = SilenceKeywords
    /\ feed = <<>>
    /\ content = NoRows
    /\ matches = NoRows
    /\ InitIdle
    /\ now = 0
    /\ pc = "idle"
    /\ InitDispatchLocals

NextSilence ==
    \/ remove_command
    \/ delete_keyword
    \/ update_keyword
    \/ RunDateJob
    \/ on_ready
    \/ ClockTick

SpecSilence == InitSilence /\ [][NextSilence]_vars

\* C38: a keyword rule that was soft-deleted through DELETE
\* /api/keywords/{id} stays inactive: no reactivation job of the scheduler
\* and no rescheduling at startup of a temporary silence set before the
\* delete turns its is_active back to true.
C38_DeletedStaysInactive ==
    \A k \in keywords : k.id \in bot.deleted => ~k.is_active

\* ------------------------------------------------------------------------
\* Completeness of the search for a combination
\* ------------------------------------------------------------------------
\* the assignments of a phrase the rule accepts: within the window, no
\* position twice, and in phrase order if the rule requires it
Valid(keyword, phrase) ==
    {f \in InWindow(keyword, phrase) : keyword.require_order => Increasing(f)}

\* the positions of the first phrase token in the content
Anchors(keyword, phrase) ==
    {i \in DOMAIN probe.tokens :
        Compared(keyword, probe.tokens)[i] = Compared(keyword, LowerAll(phrase))[1]}

\* the results of a call for a phrase whose first position is the anchor
ResultsAt(c, phrase, a) == {i \in ResultsFor(c, phrase) : c.results[i].indices[1] = a}

\* C39: for a rule without exclusions and each position of the first phrase
\* token in the content, the matcher emits exactly one combination that
\* starts at the position when some assignment of the other phrase tokens
\* satisfies window, distinctness and (if required) order, and none
\* otherwise; the combination emitted is such an assignment.
C39_OneCombinationPerAnchor ==
    \A c \in Calls :
       c.keyword.exclusions = <<>> =>
          \A p \in Range(c.keyword.phrases) : \A a \in Anchors(c.keyword, p) :
             /\ Cardinality(ResultsAt(c, p, a))
                   = IF \E f \in Valid(c.keyword, p) : f[1] = a THEN 1 ELSE 0
             /\ \A i \in ResultsAt(c, p, a) : c.results[i].indices \in Valid(c.keyword, p)

\* the search went back: the combination emitted for an anchor does not use
\* the first position of the second phrase token that is within the window
\* of the anchor; another anchor of the same call has no valid assignment
\* and no combination
C39_Witness ==
    /\ probe.called
    /\ probe.keyword.exclusions = <<>>
    /\ ~probe.keyword.require_order
    /\ \E p \in MultiToken(probe.keyword) :
          /\ Len(p) = 3
          /\ \E i \in ResultsFor(probe, p) :
                \E b \in DOMAIN probe.tokens :
                   /\ b < probe.results[i].indices[2]
                   /\ b # probe.results[i].indices[1]
                   /\ Compared(probe.keyword, probe.tokens)[b]
                         = Compared(probe.keyword, LowerAll(p))[2]
                   /\ Span(<<probe.results[i].indices[1], b>>) < probe.keyword.proximity_window
          /\ \E a \in Anchors(probe.keyword, p) :
                /\ ResultsAt(probe, p, a) = {}
                /\ \A f \in Valid(probe.keyword, p) : f[1] # a

\* ------------------------------------------------------------------------
\* The two token lists of a stored text: the Normalizer's and the Match
\* Engine's (normalizer.py 52-66, match_engine.py 41-45)
\* ------------------------------------------------------------------------
MaxPieces == 3
TextPieces == {T_bet, T_odds, <<" ">>, <<",">>, <<".">>}

RECURSIVE Concat(_)
Concat(pieces) == IF pieces = <<>> THEN <<>> ELSE pieces[1] \o Concat(Tail(pieces))

\* raw texts of words, blanks and punctuation
PunctuatedTexts == {Concat(ps) : ps \in UNION {[1..n -> TextPieces] : n \in 1..MaxPieces}}

PathKeywords ==
    {k \in KeywordConfigs : k.exclusions = <<>> /\ k.proximity_window = MaxWindow}

InitPaths ==
    /\ clients = [c \in Clients |-> IF c = "c1" THEN "c1@example.com" ELSE ""]
    /\ webhooks = {}
    /\ monitored = {}
    /\ keywords = {}
    /\ feed = <<>>
    /\ content = NoRows
    /\ matches = NoRows
    /\ InitIdle
    /\ now = 0
    /\ pc = "idle"
    /\ pending = <<>>
    /\ batches = <<>>
    /\ bi = 1
    /\ attempt = 1
    /\ backoff = INITIAL_BACKOFF
    /\ success = FALSE
    /\ send_trace = <<>>
    /\ posted = {}
    /\ emails = <<>>
    /\ result = [sent |-> 0, failed |-> 0, total |-> 0]
    /\ delivered = <<>>
    /\ sweep = NoSweep
    /\ worker = NoWorker
    /\ last_call = NoCall
    /\ api = NoApi
    /\ bot = NoBot
    /\ \E raw \in PunctuatedTexts, keyword \in PathKeywords :
          probe = [stage |-> "raw", raw |-> raw, keyword |-> keyword,
                   normalized_text |-> <<>>, normalizer |-> <<>>, engine |-> <<>>]

\* normalize_text, normalizer.py 52-66: the text the poller stores, and the
\* matcher on the NormalizedResult it returns (tests/test_matcher.py 9-11)
NormalizerPath ==
    /\ probe.stage = "raw"
    /\ LET text == normalize_text(probe.raw)
       IN probe' = [probe EXCEPT !.stage = "stored",
                                 !.normalized_text = text,
                                 !.normalizer = find_matches(text, _tokenize(text), probe.keyword)]
    /\ UNCHANGED matcherVars

\* process_content, match_engine.py 41-49: the matcher on the
\* NormalizedResult built from the stored text
EnginePath ==
    /\ probe.stage = "stored"
    /\ LET text == probe.normalized_text
       IN probe' = [probe EXCEPT !.stage = "matched",
                                 !.engine = find_matches(text, Split(text), probe.keyword)]
    /\ UNCHANGED matcherVars

NextPaths ==
    \/ NormalizerPath
    \/ EnginePath

SpecPaths == InitPaths /\ [][NextPaths]_vars

\* C40: for every stored text the matcher finds the same matches on the
\* token list of the Match Engine (the whitespace split of normalized_text)
\* as on the token list of the Normalizer, also when a keyword stands next
\* to punctuation.
C40_SameMatchesOnBothPaths ==
    probe.stage = "matched" => Range(probe.engine) = Range(probe.normalizer)

====
